---- MODULE Spec2Model ----
(***************************************************************************)
(* reddit-bot: the subscription scheduler with its delivery pipeline       *)
(* (src/src/task/task.rs), the on-demand /sendnow command                  *)
(* (src/src/bot/commands.rs), the store operations they use                *)
(* (src/src/db/client.rs), the content-source and gateway clients          *)
(* (src/src/reddit/client.rs, src/src/telegram/client.rs) and the          *)
(* persisted Subscribe dialog (src/src/bot/dialogs/subscribe.rs).          *)
(*                                                                         *)
(* The specifications share the variables:                                 *)
(*   Spec        the scheduler thread, the clock and /sendnow, over a      *)
(*               store holding rows as the Subscribe dialog or an earlier  *)
(*               version of the program left them;                         *)
(*   FairSpec    the scheduler thread and the clock, the sleep returning;  *)
(*   DialogSpec  the request path driving the commands and dialogs;        *)
(*   RaceSpec    the scheduler thread interleaved with the requests that   *)
(*               remove subscriptions;                                     *)
(*   ResumeSpec  a payload arriving for any persisted dialog row;          *)
(*   ParseSpec   the parsing of the typed list of subreddit names.         *)
(***************************************************************************)
EXTENDS Integers, Sequences, FiniteSets, TLC

(***************************************************************************)
(* Bounds of the model.                                                    *)
(***************************************************************************)
\* the clock runs over the days 0..MaxDay
MaxDay == 1
\* the clock is observed at the hours 0, HourStep, 2*HourStep, ... of a day
HourStep == 8
\* the gateway's per-day digest counters saturate here
MaxDigests == 2
\* number of /sendnow commands the request path receives
MaxSendNow == 1
\* number of rows table users_subscriptions can take
MaxRows == 2
MaxLen == 3

(***************************************************************************)
(* Constants of the program and of the libraries it calls.                 *)
(***************************************************************************)
\* chrono: Timelike::hour() is in 0..23
HoursPerDay == 24
\* chrono: Weekday has seven values, from_i32 maps 0..6 (0 = Monday)
DaysPerWeek == 7
\* chrono: hour() is a u32 below 2^31; a negative i32 cast `as u32` is 2^31 or more
I32Max == 2147483647

VARIABLES
    now,        \* Utc::now(): [day, hour]
    subs,       \* table users_subscriptions, in id order
    schedPc,    \* position of the scheduler thread
    snapshot,   \* user_subscriptions: the list the running iteration loaded
    idx,        \* position of the for loop in snapshot
    posts,      \* posts the pipeline fetched
    config,     \* (token, database_url) the scheduler was started with
    run,        \* observation: the scheduler's latest pipeline run
    digests,    \* observation: per id, digests the gateway accepted today
    schedDigests, \* observation: per id, those of them the scheduler sent
    lost,       \* observation: per id, scheduler runs today that returned Err
                \*   after the gateway had accepted their digest
    sendNows,   \* number of /sendnow commands handled
    users,      \* table users
    dialogs,    \* table dialogs: user_id -> row
    handled     \* observation: the request the bot handled last

vars == <<now, subs, schedPc, snapshot, idx, posts, config, run,
          digests, schedDigests, lost, sendNows, users, dialogs, handled>>

schedVars == <<schedPc, snapshot, idx, posts, config, run>>
obsVars == <<digests, schedDigests, lost>>
dialogVars == <<users, dialogs, handled>>
botVars == <<sendNows, users, dialogs, handled>>

(***************************************************************************)
(* Time.                                                                   *)
(***************************************************************************)
ClockHours == {h \in 0..(HoursPerDay - 1) : h % HourStep = 0}
Times == [day : 0..MaxDay, hour : ClockHours]

\* chrono Datelike::weekday(); day 0 of the model is a Monday
weekday(t) == t.day % DaysPerWeek
hour(t) == t.hour
date(t) == t.day

\* Option<String>: <<>> is None, <<s>> is Some(s)
None == <<>>
Some(x) == <<x>>

\* DateTime::to_rfc3339: the text "<date>T<time>", here its two fields
to_rfc3339(t) == <<"rfc3339", t.day, t.hour>>
\* str::parse::<DateTime<Utc>>
parse_datetime(s) ==
    IF Len(s) = 3 /\ s[1] = "rfc3339"
    THEN [ok |-> TRUE, value |-> [day |-> s[2], hour |-> s[3]]]
    ELSE [ok |-> FALSE, value |-> [day |-> 0, hour |-> 0]]

\* Weekday::from_i32: None outside 0..6
Weekday_from_i32(n) == IF n \in 0..(DaysPerWeek - 1) THEN Some(n) ELSE None
\* `h < (x as u32)` for a u32 h <= I32Max and an i32 x: a negative x wraps
\* to x + 2^32 > I32Max
lt_as_u32(h, x) == IF x < 0 THEN h <= I32Max ELSE h < x

(***************************************************************************)
(* The store.                                                              *)
(***************************************************************************)
UserIds == {"u1", "u2"}
SendOnValues == {0, 1, 7}
SendAtValues == {-1, HourStep}

\* rows an earlier version of the program (no last_sent_at written) or the
\* Subscribe dialog (db.subscribe writes Some(now)) left in the store
InitRow(i, u, on, at, last) ==
    [id |-> i, user_id |-> u, subreddit |-> IF i = 1 THEN <<"rust">> ELSE <<"aww">>,
     send_on |-> on, send_at |-> at, last_sent_at |-> last]
InitLast == {None, Some(to_rfc3339([day |-> 0, hour |-> 0]))}
InitStores ==
    { <<InitRow(1, "u1", on, at, last)>> :
        on \in SendOnValues, at \in SendAtValues, last \in InitLast }
    \cup
    { <<InitRow(1, "u1", 0, HourStep, last1), InitRow(2, u2, 0, HourStep, None)>> :
        last1 \in InitLast, u2 \in UserIds }

SubIds == 1..2

\* DbClient::get_subscriptions
get_subscriptions(store) == store
\* faulty variant: the query has no filter on user_id
get_user_subscriptions_AllUsers(store, u) == SelectSeq(store, LAMBDA r : TRUE)
\* DbClient::get_user_subscriptions
get_user_subscriptions(store, u) == SelectSeq(store, LAMBDA r : r.user_id = u)
\* faulty variant: the statement is built but matches no row
update_last_sent_NoRow(store, id, t) ==
    [i \in 1..Len(store) |->
        IF store[i].id = id /\ store[i].id # id
        THEN [store[i] EXCEPT !.last_sent_at = Some(to_rfc3339(t))]
        ELSE store[i]]

\* DbClient::update_last_sent: UPDATE ... SET last_sent_at = now WHERE id = ?
update_last_sent(store, id, t) ==
    [i \in 1..Len(store) |->
        IF store[i].id = id
        THEN [store[i] EXCEPT !.last_sent_at = Some(to_rfc3339(t))]
        ELSE store[i]]

HasRow(store, id) == \E i \in 1..Len(store) : store[i].id = id
RowOf(store, id) == store[CHOOSE i \in 1..Len(store) : store[i].id = id]

(***************************************************************************)
(* Content Source: RedditClient::fetch_posts.                              *)
(***************************************************************************)
BaseUrl == "https://reddit.com"

\* what the HTTP exchange can produce; a JSON body is described by the
\* fields fetch_posts looks at
JsonBody(hasData, childrenKind, children) ==
    [kind |-> "json", has_data |-> hasData, children_kind |-> childrenKind,
     children |-> children]
Child(hasFields) ==
    [has_fields |-> hasFields, title |-> "A half-hour to learn Rust",
     permalink |-> "/r/rust/comments/fbenua/"]
NoBody == JsonBody(FALSE, "missing", <<>>)
Responses ==
    { [NoBody EXCEPT !.kind = "network_error"],
      [NoBody EXCEPT !.kind = "malformed"],
      JsonBody(FALSE, "missing", <<>>),
      JsonBody(TRUE, "missing", <<>>),
      JsonBody(TRUE, "string", <<>>),
      JsonBody(TRUE, "array", <<>>),
      JsonBody(TRUE, "array", <<Child(TRUE)>>),
      JsonBody(TRUE, "array", <<Child(FALSE)>>) }

FetchResult(tag, ps) == [tag |-> tag, posts |-> ps]

\* fetch_posts: `?` on the request and on serde_json::from_str, expect() on
\* "data" and "children", unwrap() on each child's fields
fetch_posts(resp) ==
    IF resp.kind = "network_error" THEN FetchResult("Err", <<>>)
    ELSE IF resp.kind = "malformed" THEN FetchResult("Err", <<>>)
    ELSE IF ~resp.has_data THEN FetchResult("Panic", <<>>)
    ELSE IF resp.children_kind = "missing" THEN FetchResult("Panic", <<>>)
    ELSE IF resp.children_kind # "array" THEN FetchResult("Ok", <<>>)
    ELSE IF \E i \in 1..Len(resp.children) : ~resp.children[i].has_fields
         THEN FetchResult("Panic", <<>>)
    ELSE FetchResult("Ok",
            [i \in 1..Len(resp.children) |->
                [title |-> resp.children[i].title,
                 link |-> <<BaseUrl, resp.children[i].permalink>>]])

(***************************************************************************)
(* Messaging Gateway: TelegramClient::send_message.                        *)
(***************************************************************************)
\* "ok": success status and a JSON body; "malformed_response": success
\* status (the gateway took the message) but from_str fails; "unsuccessful":
\* other status; "network_error": the request did not go through
SendOutcomes == {"ok", "malformed_response", "unsuccessful", "network_error"}
Accepted(outcome) == outcome \in {"ok", "malformed_response"}
send_message_ok(outcome) == outcome = "ok"

\* the text process_subscription builds: header, then "{post}\n" per post
\* with Post's Display "{title}\n{link}\n"
Header(subreddit) == <<"Weekly popular posts from: \"", subreddit, "\"\n\n">>
RECURSIVE PostBlocks(_)
PostBlocks(ps) ==
    IF ps = <<>> THEN <<>>
    ELSE <<Head(ps).title, "\n", Head(ps).link[1], Head(ps).link[2], "\n", "\n">>
         \o PostBlocks(Tail(ps))
\* faulty variant: no header when there is no post
FormatMessage_NoHeaderWhenEmpty(subreddit, ps) ==
    IF ps = <<>> THEN <<>> ELSE Header(subreddit) \o PostBlocks(ps)

FormatMessage(subreddit, ps) == Header(subreddit) \o PostBlocks(ps)

NoDigests == [i \in SubIds |-> 0]
Count(counter, id) == [counter EXCEPT ![id] = IF @ < MaxDigests THEN @ + 1 ELSE @]
\* outcomes the gateway can give for one more digest of id today
SendOutcomesFor(dg, id) ==
    IF dg[id] < MaxDigests THEN SendOutcomes
    ELSE {o \in SendOutcomes : ~Accepted(o)}

(***************************************************************************)
(* Scheduler thread: init_task (src/src/task/task.rs).                     *)
(***************************************************************************)
NoRun ==
    [id |-> 0, result |-> "none", fetch |-> "none", items |-> 0,
     send |-> "none", day |-> 0, update |-> "none", wrote |-> FALSE,
     text |-> <<>>]

\* task.rs:33: the weekday or the hour does not match yet
NotYet(s, t) ==
    \/ weekday(t) # Weekday_from_i32(s.send_on)[1]
    \/ lt_as_u32(hour(t), s.send_at)

\* faulty variant: compares the whole timestamp, not its date
AlreadySentToday_SameInstant(s, t) ==
    /\ s.last_sent_at # None
    /\ parse_datetime(s.last_sent_at[1]).ok
    /\ parse_datetime(s.last_sent_at[1]).value = t

\* faulty variant: the test on the parse result is inverted
AlreadySentToday_ParseInverted(s, t) ==
    /\ s.last_sent_at # None
    /\ ~parse_datetime(s.last_sent_at[1]).ok
    /\ date(parse_datetime(s.last_sent_at[1]).value) = date(t)

\* task.rs:41-47: last_sent_at parses to a time of today's date
AlreadySentToday(s, t) ==
    /\ s.last_sent_at # None
    /\ parse_datetime(s.last_sent_at[1]).ok
    /\ date(parse_datetime(s.last_sent_at[1]).value) = date(t)

\* faulty variant: the for loop is left after a run, the rest of the list
\* is not examined
Continue_LeavesLoop ==
    /\ idx' = idx + 1
    /\ schedPc' = "sleep"
    /\ posts' = <<>>

\* the for loop moves to the next subscription, or the iteration ends
Continue ==
    /\ idx' = idx + 1
    /\ schedPc' = IF idx + 1 > Len(snapshot) THEN "sleep" ELSE "check"
    /\ posts' = <<>>

\* task.rs:28: db.get_subscriptions(), Ok or Err
SchedLoad ==
    /\ schedPc = "load"
    /\ \E ok \in BOOLEAN :
        IF ok
        THEN /\ snapshot' = get_subscriptions(subs)
             /\ schedPc' = IF Len(subs) = 0 THEN "sleep" ELSE "check"
        ELSE /\ snapshot' = <<>>
             /\ schedPc' = "sleep"
    /\ idx' = 1
    /\ UNCHANGED <<now, subs, posts, config, run, obsVars, botVars>>

\* task.rs:30-48: read the clock and decide whether snapshot[idx] is due
SchedCheck ==
    /\ schedPc = "check"
    /\ LET s == snapshot[idx] IN
        IF Weekday_from_i32(s.send_on) = None
        THEN /\ schedPc' = "panicked"
             /\ run' = [NoRun EXCEPT !.id = s.id, !.result = "check_panic"]
             /\ UNCHANGED <<idx, posts>>
        ELSE IF NotYet(s, now) \/ AlreadySentToday(s, now)
        THEN /\ Continue
             /\ run' = [NoRun EXCEPT !.id = s.id, !.result = "skipped"]
        ELSE /\ schedPc' = "fetch"
             /\ run' = [NoRun EXCEPT !.id = s.id, !.result = "running"]
             /\ UNCHANGED <<idx, posts>>
    /\ UNCHANGED <<now, subs, snapshot, config, obsVars, botVars>>

\* task.rs:83-85: reddit_client.fetch_posts(..).await?
SchedFetch ==
    /\ schedPc = "fetch"
    /\ \E resp \in Responses :
        LET r == fetch_posts(resp) IN
        CASE r.tag = "Panic" ->
                /\ schedPc' = "panicked"
                /\ run' = [run EXCEPT !.fetch = "panic", !.result = "Panic"]
                /\ UNCHANGED <<idx, posts>>
          [] r.tag = "Err" ->
                /\ Continue
                /\ run' = [run EXCEPT !.fetch = "err", !.result = "Err"]
          [] r.tag = "Ok" ->
                /\ schedPc' = "send"
                /\ posts' = r.posts
                /\ run' = [run EXCEPT !.fetch = "ok", !.items = Len(r.posts)]
                /\ UNCHANGED idx
    /\ UNCHANGED <<now, subs, snapshot, config, obsVars, botVars>>

\* task.rs:87-103: format the message, telegram_client.send_message(..).await?
SchedSend ==
    /\ schedPc = "send"
    /\ LET s == snapshot[idx] IN
       \E outcome \in SendOutcomesFor(digests, s.id) :
        /\ run' = [run EXCEPT !.send = outcome, !.day = date(now),
                              !.text = FormatMessage(s.subreddit, posts),
                              !.result = IF send_message_ok(outcome)
                                         THEN "running" ELSE "Err"]
        /\ IF Accepted(outcome)
           THEN /\ digests' = Count(digests, s.id)
                /\ schedDigests' = Count(schedDigests, s.id)
           ELSE UNCHANGED <<digests, schedDigests>>
        /\ lost' = IF Accepted(outcome) /\ ~send_message_ok(outcome)
                   THEN Count(lost, s.id) ELSE lost
        /\ IF send_message_ok(outcome)
           THEN /\ schedPc' = "update"
                /\ UNCHANGED <<idx, posts>>
           ELSE Continue
    /\ UNCHANGED <<now, subs, snapshot, config, botVars>>

\* task.rs:104: db.update_last_sent(user_subscription.id)?
SchedUpdate ==
    /\ schedPc = "update"
    /\ LET s == snapshot[idx] IN
       \E ok \in BOOLEAN :
        IF ok
        THEN /\ subs' = update_last_sent(subs, s.id, now)
             /\ run' = [run EXCEPT !.update = "ok", !.result = "Ok",
                                   !.wrote = HasRow(subs, s.id)]
             /\ lost' = lost
        ELSE /\ run' = [run EXCEPT !.update = "err", !.result = "Err"]
             /\ lost' = Count(lost, s.id)
             /\ subs' = subs
    /\ Continue
    /\ UNCHANGED <<now, snapshot, config, digests, schedDigests, botVars>>

\* task.rs:66: thread::sleep, then the next iteration
SchedSleep ==
    /\ schedPc = "sleep"
    /\ schedPc' = "load"
    /\ snapshot' = <<>>
    /\ idx' = 1
    /\ run' = NoRun
    /\ UNCHANGED <<now, subs, posts, config, obsVars, botVars>>

\* task.rs:70-73: catch_unwind returned Err: init_task(token, database_url)
\* again; DbClient::new there (db/client.rs:18-26) expect()s the connection
\* and unwrap()s the migrations outside any catch_unwind
SchedRestart ==
    /\ schedPc = "panicked"
    /\ \E connected \in BOOLEAN :
        schedPc' = IF connected THEN "load" ELSE "dead"
    /\ config' = config
    /\ snapshot' = <<>>
    /\ idx' = 1
    /\ posts' = <<>>
    /\ run' = NoRun
    /\ UNCHANGED <<now, subs, obsVars, botVars>>

(***************************************************************************)
(* The clock.                                                              *)
(***************************************************************************)
NextTime(t) ==
    IF t.hour + HourStep < HoursPerDay
    THEN [day |-> t.day, hour |-> t.hour + HourStep]
    ELSE [day |-> t.day + 1, hour |-> 0]

\* the counters of the observation variables are per day
Tick ==
    /\ NextTime(now) \in Times
    /\ now' = NextTime(now)
    /\ IF date(NextTime(now)) # date(now)
       THEN /\ digests' = NoDigests
            /\ schedDigests' = NoDigests
            /\ lost' = NoDigests
       ELSE UNCHANGED obsVars
    /\ UNCHANGED <<subs, schedVars, botVars>>

(***************************************************************************)
(* Request path: /sendnow (src/src/bot/commands.rs).                       *)
(***************************************************************************)
\* process_subscription run in one piece, as the request path runs it:
\* c gives what the Content Source, the gateway and the store answer
PipelineCase(resp, send, updateOk) ==
    [resp |-> resp, send |-> send, update_ok |-> updateOk]
PipelineCases ==
    { PipelineCase([NoBody EXCEPT !.kind = "network_error"], "ok", TRUE),
      PipelineCase(JsonBody(FALSE, "missing", <<>>), "ok", TRUE),
      PipelineCase(JsonBody(TRUE, "array", <<Child(TRUE)>>), "unsuccessful", TRUE),
      PipelineCase(JsonBody(TRUE, "array", <<Child(TRUE)>>), "ok", FALSE),
      PipelineCase(JsonBody(TRUE, "array", <<Child(TRUE)>>), "ok", TRUE) }

\* w: [subs, digests, result, feasible]
process_subscription(w, s, c, t) ==
    LET r == fetch_posts(c.resp) IN
    IF r.tag = "Panic" THEN [w EXCEPT !.result = "Panic"]
    ELSE IF r.tag = "Err" THEN [w EXCEPT !.result = "Err"]
    ELSE IF c.send \notin SendOutcomesFor(w.digests, s.id)
         THEN [w EXCEPT !.feasible = FALSE]
    ELSE LET dg == IF Accepted(c.send)
                   THEN Count(w.digests, s.id)
                   ELSE w.digests
         IN
         IF ~send_message_ok(c.send)
         THEN [w EXCEPT !.digests = dg, !.result = "Err"]
         ELSE IF ~c.update_ok
         THEN [w EXCEPT !.digests = dg, !.result = "Err"]
         ELSE [w EXCEPT !.digests = dg, !.result = "Ok",
                        !.subs = update_last_sent(w.subs, s.id, t)]

\* commands.rs:192-202: the for loop over the user's subscriptions; a panic
\* of the pipeline unwinds out of the handler
RECURSIVE send_now_loop(_, _, _, _, _)
send_now_loop(w, list, i, choice, t) ==
    IF i > Len(list) THEN w
    ELSE LET w2 == process_subscription(w, list[i], choice[i], t) IN
         IF w2.result = "Panic" \/ ~w2.feasible THEN w2
         ELSE send_now_loop(w2, list, i + 1, choice, t)

(***************************************************************************)
(* Text.  A string is a sequence of tokens: a token is a run of characters *)
(* the program never looks into (a name, a number), the prefix "r/", a     *)
(* space or a newline.                                                     *)
(***************************************************************************)
EmptyString == <<>>
Whitespace == {" ", "\n"}

\* byte order of the tokens ('\n' < ' ' < '-' < '1' < '7' < 'a' < "r/" < "ru")
TokenRank ==
    "\n" :> 0 @@ " " :> 1 @@ "-1" :> 2 @@ "1" :> 3 @@ "7" :> 4 @@
    "aww" :> 5 @@ "r/" :> 6 @@ "rust" :> 7

\* str::parse::<i32>() on the tokens that are numbers
IntTokens == "-1" :> -1 @@ "1" :> 1 @@ "7" :> 7
parse_i32(s) ==
    IF Len(s) = 1 /\ s[1] \in DOMAIN IntTokens
    THEN Some(IntTokens[s[1]])
    ELSE None
unwrap_or(opt, default) == IF opt = None THEN default ELSE opt[1]

\* str::replace(from, to) for a one-token pattern; `to` is a string
RECURSIVE replace(_, _, _)
replace(s, from, to) ==
    IF s = <<>> THEN <<>>
    ELSE (IF Head(s) = from THEN to ELSE <<Head(s)>>) \o replace(Tail(s), from, to)

RECURSIVE trim_start(_)
trim_start(s) ==
    IF s # <<>> /\ Head(s) \in Whitespace THEN trim_start(Tail(s)) ELSE s
RECURSIVE trim_end(_)
trim_end(s) ==
    IF s # <<>> /\ s[Len(s)] \in Whitespace
    THEN trim_end(SubSeq(s, 1, Len(s) - 1))
    ELSE s
\* str::trim
trim(s) == trim_end(trim_start(s))

\* Regex \s\s+ replace_all with " ": every run of two or more whitespace
\* tokens becomes one space, a single whitespace token stays as it is
RECURSIVE skip_whitespace(_)
skip_whitespace(s) ==
    IF s # <<>> /\ Head(s) \in Whitespace THEN skip_whitespace(Tail(s)) ELSE s
RECURSIVE collapse_whitespace(_)
collapse_whitespace(s) ==
    IF s = <<>> THEN <<>>
    ELSE IF Head(s) \in Whitespace /\ Len(s) > 1 /\ s[2] \in Whitespace
         THEN <<" ">> \o collapse_whitespace(skip_whitespace(s))
         ELSE <<Head(s)>> \o collapse_whitespace(Tail(s))

\* str::split(' '): n separators give n + 1 pieces, empty pieces included
RECURSIVE split_from(_, _, _)
split_from(s, sep, piece) ==
    IF s = <<>> THEN <<piece>>
    ELSE IF Head(s) = sep
         THEN <<piece>> \o split_from(Tail(s), sep, <<>>)
         ELSE split_from(Tail(s), sep, Append(piece, Head(s)))
split(s, sep) == split_from(s, sep, <<>>)

\* Ord for String
RECURSIVE str_lt(_, _)
str_lt(a, b) ==
    IF b = <<>> THEN FALSE
    ELSE IF a = <<>> THEN TRUE
    ELSE IF Head(a) = Head(b) THEN str_lt(Tail(a), Tail(b))
    ELSE TokenRank[Head(a)] < TokenRank[Head(b)]

RECURSIVE sort_insert(_, _)
sort_insert(sorted, x) ==
    IF sorted = <<>> THEN <<x>>
    ELSE IF str_lt(x, Head(sorted)) THEN <<x>> \o sorted
    ELSE <<Head(sorted)>> \o sort_insert(Tail(sorted), x)
\* Vec::sort
RECURSIVE sort(_)
sort(v) == IF v = <<>> THEN <<>> ELSE sort_insert(sort(Tail(v)), Head(v))

\* a dedup that drops nothing
dedup_KeepsAll(v) == v

\* Vec::dedup: drops an element equal to the one before it
RECURSIVE dedup(_)
dedup(v) ==
    IF Len(v) < 2 THEN v
    ELSE IF v[1] = v[2] THEN dedup(Tail(v))
    ELSE <<v[1]>> \o dedup(Tail(v))

\* subscribe.rs:29-41
parse_subreddits(subreddits) ==
    dedup(sort(split(
        collapse_whitespace(trim(replace(replace(subreddits, "r/", <<>>), "\n", <<" ">>))),
        " ")))

Range(v) == {v[i] : i \in 1..Len(v)}

(***************************************************************************)
(* Dialogs (src/src/bot/dialogs).                                          *)
(***************************************************************************)
\* enum Subscribe
Subscribe_Start == 0
Subscribe_Subreddit == 1
Subscribe_Weekday == 2
Subscribe_Time == 3
SubscribeSteps == {Subscribe_Start, Subscribe_Subreddit, Subscribe_Weekday, Subscribe_Time}

\* strum Display / EnumString of Subscribe
StepNames == <<"Start", "Subreddit", "Weekday", "Time">>
Subscribe_to_string(step) == StepNames[step + 1]
Subscribe_from_str(name) ==
    IF \E i \in 1..Len(StepNames) : StepNames[i] = name
    THEN Some((CHOOSE i \in 1..Len(StepNames) : StepNames[i] = name) - 1)
    ELSE None

\* an insert that forgets the payload of the first step
data_insert_DropsStart(data, k, v) ==
    [x \in ((DOMAIN data) \ {0}) \cup {k} |-> IF x = k THEN v ELSE data[x]]

\* HashMap::insert
data_insert(data, k, v) ==
    [x \in (DOMAIN data) \cup {k} |-> IF x = k THEN v ELSE data[x]]

\* serde_json::to_string of HashMap<Subscribe, String>: an object, one member
\* per key
to_json(data) == {<<Subscribe_to_string(k), data[k]>> : k \in DOMAIN data}
\* serde_json::from_str into HashMap<Subscribe, String>
from_json(json) ==
    [k \in {Subscribe_from_str(m[1])[1] : m \in json} |->
        (CHOOSE m \in json : Subscribe_from_str(m[1]) = Some(k))[2]]

\* Dialog::<Subscribe>::new
Dialog_Subscribe_new(user_id) ==
    [command |-> "/subscribe", user_id |-> user_id,
     current_step |-> Subscribe_Start,
     data |-> [k \in {} |-> EmptyString]]

\* impl Into<DialogEntity> for Dialog<T>
into_DialogEntity(d) ==
    [user_id |-> d.user_id, command |-> d.command,
     step |-> Subscribe_to_string(d.current_step), data |-> to_json(d.data)]

\* a conversion that resumes every dialog at its first persisted step
from_DialogEntity_AtSubreddit(e) ==
    [user_id |-> e.user_id, command |-> e.command,
     current_step |-> Some(Subscribe_Subreddit), data |-> from_json(e.data)]

\* impl From<DialogEntity> for Dialog<T>; the step is unwrapped by the caller
from_DialogEntity(e) ==
    [user_id |-> e.user_id, command |-> e.command,
     current_step |-> Subscribe_from_str(e.step), data |-> from_json(e.data)]

(***************************************************************************)
(* Store operations of the request path.                                   *)
(***************************************************************************)
\* DbClient::create_user; users.id is the primary key
create_user(usrs, id) ==
    IF id \in usrs
    THEN [res |-> "UniqueViolation", users |-> usrs]
    ELSE [res |-> "Ok", users |-> usrs \cup {id}]

\* ON DELETE CASCADE of users_subscriptions.user_id
cascade_subscriptions(store, id) == SelectSeq(store, LAMBDA r : r.user_id # id)

\* ON DELETE CASCADE of dialogs.user_id
cascade_dialogs(dlgs, id) == [dlgs EXCEPT ![id] = None]

\* faulty variant: the user's subscriptions outlive the user
delete_user_KeepsSubscriptions(usrs, store, dlgs, id) ==
    [users |-> usrs \ {id}, subs |-> store,
     dialogs |-> cascade_dialogs(dlgs, id)]

\* DbClient::delete_user: DELETE FROM users WHERE id = ?, with foreign keys
\* enforced; Ok also when there is no such row
delete_user(usrs, store, dlgs, id) ==
    [users |-> usrs \ {id}, subs |-> cascade_subscriptions(store, id),
     dialogs |-> cascade_dialogs(dlgs, id)]

\* faulty variant: INSERT INTO in place of REPLACE INTO on a table without a
\* key; the old row stays and is the first one a read finds
insert_or_update_dialog_InsertOnly(dlgs, usrs, e) ==
    IF e.user_id \in usrs
    THEN [res |-> "Ok", dialogs |-> [dlgs EXCEPT ![e.user_id] = Append(@, e)]]
    ELSE [res |-> "ForeignKeyViolation", dialogs |-> dlgs]

\* faulty variant: an upsert that merges the data into the row it finds
insert_or_update_dialog_MergesData(dlgs, usrs, e) ==
    IF e.user_id \in usrs
    THEN [res |-> "Ok",
          dialogs |-> [dlgs EXCEPT ![e.user_id] =
                          IF dlgs[e.user_id] = None THEN Some(e)
                          ELSE Some([user_id |-> e.user_id,
                                     command |-> e.command, step |-> e.step,
                                     data |-> dlgs[e.user_id][1].data
                                                \cup e.data])]]
    ELSE [res |-> "ForeignKeyViolation", dialogs |-> dlgs]

\* faulty variant: the connection does not enforce foreign keys
insert_or_update_dialog_NoForeignKeys(dlgs, usrs, e) ==
    [res |-> "Ok", dialogs |-> [dlgs EXCEPT ![e.user_id] = Some(e)]]

\* DbClient::insert_or_update_dialog: REPLACE INTO dialogs, with foreign keys
\* enforced (DbClient::new)
insert_or_update_dialog(dlgs, usrs, e) ==
    IF e.user_id \in usrs
    THEN [res |-> "Ok", dialogs |-> [dlgs EXCEPT ![e.user_id] = Some(e)]]
    ELSE [res |-> "ForeignKeyViolation", dialogs |-> dlgs]

\* DbClient::get_users_dialog
get_users_dialog(dlgs, user_id) == dlgs[user_id]

\* DbClient::delete_dialog
delete_dialog(dlgs, user_id) == [dlgs EXCEPT ![user_id] = None]

\* AUTOINCREMENT id of users_subscriptions
NextId(store) ==
    IF store = <<>> THEN 1
    ELSE 1 + (CHOOSE m \in {store[i].id : i \in 1..Len(store)} :
                \A i \in 1..Len(store) : store[i].id <= m)

\* faulty variant: the row is stored with send_on and send_at exchanged
db_subscribe_SwapDayTime(store, usrs, user_id, subreddit, send_on, send_at, t) ==
    IF user_id \notin usrs
    THEN [res |-> "ForeignKeyViolation", subs |-> store]
    ELSE IF \E i \in 1..Len(store) :
                store[i].user_id = user_id /\ store[i].subreddit = subreddit
    THEN [res |-> "UniqueViolation", subs |-> store]
    ELSE [res |-> "Ok",
          subs |-> Append(store,
                     [id |-> NextId(store), user_id |-> user_id,
                      subreddit |-> subreddit, send_on |-> send_at,
                      send_at |-> send_on,
                      last_sent_at |-> Some(to_rfc3339(t))])]

\* faulty variant: the table has no unique index on (user_id, subreddit)
db_subscribe_NoUniqueIndex(store, usrs, user_id, subreddit, send_on, send_at, t) ==
    IF user_id \notin usrs
    THEN [res |-> "ForeignKeyViolation", subs |-> store]
    ELSE [res |-> "Ok",
          subs |-> Append(store,
                     [id |-> NextId(store), user_id |-> user_id,
                      subreddit |-> subreddit, send_on |-> send_on,
                      send_at |-> send_at,
                      last_sent_at |-> Some(to_rfc3339(t))])]

\* DbClient::subscribe: INSERT, then the row read back; (user_id, subreddit)
\* is unique and user_id references users
db_subscribe(store, usrs, user_id, subreddit, send_on, send_at, t) ==
    IF user_id \notin usrs
    THEN [res |-> "ForeignKeyViolation", subs |-> store]
    ELSE IF \E i \in 1..Len(store) :
                store[i].user_id = user_id /\ store[i].subreddit = subreddit
    THEN [res |-> "UniqueViolation", subs |-> store]
    ELSE [res |-> "Ok",
          subs |-> Append(store,
                     [id |-> NextId(store), user_id |-> user_id,
                      subreddit |-> subreddit, send_on |-> send_on,
                      send_at |-> send_at,
                      last_sent_at |-> Some(to_rfc3339(t))])]

(***************************************************************************)
(* The Subscribe dialog (src/src/bot/dialogs/subscribe.rs).                *)
(* A handler runs against an environment env that fixes what the calls it  *)
(* makes return:                                                           *)
(*   env.dialog_ok     statements on table dialogs succeed                 *)
(*   env.subscribe_ok  statements on table users_subscriptions succeed     *)
(*                     (DbClient::subscribe reaches the constraint checks) *)
(*   env.gateway_ok    TelegramClient::send_message returns Ok             *)
(*   env.missing       names RedditClient::validate_subreddit rejects      *)
(* Its outcome is the tables it leaves, its result and the texts it sent.  *)
(***************************************************************************)
Outcome(store, dlgs, result, outbox) ==
    [subs |-> store, dialogs |-> dlgs, result |-> result, outbox |-> outbox]

PromptSubreddit == <<"Type the name of subreddit you want to subscribe to.">>
PromptWeekday == <<"On which day do you want to receive the posts?">>
PromptTime == <<"At what time? (UTC)">>
InvalidSubreddit(name) == <<"Invalid subreddit - ", name, ", try again">>
Subscribed(name, day, time) ==
    <<"Subscribed to: ", name, ". Posts will be sent periodically on ", day,
      " at around ", time, ":00 UTC time.">>
AlreadySubscribed(name) == <<"Already subscribed to ", name>>
SomethingWentWrong == <<"Something went wrong">>
SendNowHint ==
    <<"You can use /sendnow to get posts now from all of your subscriptions.">>

\* faulty variant: the Subreddit step hands over to the Time step
Subscribe_next_SkipWeekday(step) ==
    CASE step = Subscribe_Start -> Subscribe_Subreddit
      [] step = Subscribe_Subreddit -> Subscribe_Time
      [] step = Subscribe_Weekday -> Subscribe_Time

\* subscribe.rs:64, 100, 122: the step each arm assigns to current_step
Subscribe_next(step) ==
    CASE step = Subscribe_Start -> Subscribe_Subreddit
      [] step = Subscribe_Subreddit -> Subscribe_Weekday
      [] step = Subscribe_Weekday -> Subscribe_Time

\* subscribe.rs:64-72, 100-110, 122-132: assign the step, persist, prompt
advance(d, prompt, env, usrs, store, dlgs) ==
    LET d2 == [d EXCEPT !.current_step = Subscribe_next(d.current_step)]
        r == IF env.dialog_ok
             THEN insert_or_update_dialog(dlgs, usrs, into_DialogEntity(d2))
             ELSE [res |-> "DatabaseError", dialogs |-> dlgs]
    IN  IF r.res # "Ok" THEN Outcome(store, dlgs, r.res, <<>>)
        ELSE IF ~env.gateway_ok THEN Outcome(store, r.dialogs, "TelegramError", <<>>)
        ELSE Outcome(store, r.dialogs, "Ok", <<prompt>>)

\* subscribe.rs:154-189: the loop over the names, from position i on
RECURSIVE subscribe_each(_, _, _, _, _, _, _, _, _)
subscribe_each(out, names, i, user_id, day, time, env, usrs, t) ==
    IF i > Len(names) THEN out
    ELSE
      LET r == IF env.subscribe_ok
               THEN db_subscribe(out.subs, usrs, user_id, names[i], day, time, t)
               ELSE [res |-> "DatabaseError", subs |-> out.subs]
          stored == [out EXCEPT !.subs = r.subs]
          text == IF r.res = "Ok" THEN Subscribed(names[i], day, time)
                  ELSE IF r.res = "UniqueViolation" THEN AlreadySubscribed(names[i])
                  ELSE SomethingWentWrong
      IN  IF r.res = "Ok" /\ Weekday_from_i32(day) = None
          THEN [stored EXCEPT !.result = "Panic"]
          ELSE IF ~env.gateway_ok
          THEN [stored EXCEPT !.result = "TelegramError"]
          ELSE subscribe_each([stored EXCEPT !.outbox = Append(@, text)],
                              names, i + 1, user_id, day, time, env, usrs, t)

\* faulty variant: only the first name is validated
first_invalid_FirstNameOnly(subreddits, env) ==
    IF subreddits # <<>> /\ subreddits[1] \in env.missing THEN 1 ELSE 0

\* the loop over validate_subreddit (subscribe.rs:78-89): the position of the
\* first name the Content Source rejects, 0 when it accepts them all
first_invalid(subreddits, env) ==
    LET invalid == {i \in 1..Len(subreddits) : subreddits[i] \in env.missing}
    IN  IF invalid = {} THEN 0
        ELSE CHOOSE i \in invalid : \A j \in invalid : i <= j

\* the names the Time step subscribes to (subscribe.rs:135-140)
time_step_subreddits(raw) == split(replace(raw, "r/", <<>>), " ")

\* subscribe.rs:53-203
handle_current_step(d0, payload, env, usrs, store, dlgs, t) ==
    LET d == [d0 EXCEPT !.data = data_insert(@, d0.current_step, payload)] IN
    CASE d.current_step = Subscribe_Start ->
            advance(d, PromptSubreddit, env, usrs, store, dlgs)
      [] d.current_step = Subscribe_Subreddit ->
            LET subreddits == parse_subreddits(d.data[Subscribe_Subreddit])
                first == first_invalid(subreddits, env)
            IN  IF first # 0
                THEN IF env.gateway_ok
                     THEN Outcome(store, dlgs, "Ok",
                                  <<InvalidSubreddit(subreddits[first])>>)
                     ELSE Outcome(store, dlgs, "TelegramError", <<>>)
                ELSE advance(d, PromptWeekday, env, usrs, store, dlgs)
      [] d.current_step = Subscribe_Weekday ->
            advance(d, PromptTime, env, usrs, store, dlgs)
      [] d.current_step = Subscribe_Time ->
            LET subreddits == time_step_subreddits(d.data[Subscribe_Subreddit])
                day == unwrap_or(parse_i32(d.data[Subscribe_Weekday]), 0)
                time == unwrap_or(parse_i32(d.data[Subscribe_Time]), 12)
                out == subscribe_each(Outcome(store, dlgs, "Ok", <<>>),
                                      subreddits, 1, d.user_id, day, time,
                                      env, usrs, t)
            IN  IF out.result # "Ok" THEN out
                ELSE IF ~env.gateway_ok THEN [out EXCEPT !.result = "TelegramError"]
                ELSE IF ~env.dialog_ok
                THEN [out EXCEPT !.result = "DatabaseError",
                                 !.outbox = Append(@, SendNowHint)]
                ELSE [out EXCEPT !.dialogs = delete_dialog(dlgs, d.user_id),
                                 !.outbox = Append(@, SendNowHint)]

(***************************************************************************)
(* The Unsubscribe dialog (src/src/bot/dialogs/unsubscribe.rs) and the     *)
(* Feedback dialog (src/src/bot/dialogs/feedback.rs).                      *)
(***************************************************************************)
\* enum Unsubscribe
Unsubscribe_Start == 0
Unsubscribe_Subreddit == 1
UnsubscribeStepNames == <<"Start", "Subreddit">>
\* enum Feedback
Feedback_Start == 0
Feedback_Input == 1
FeedbackStepNames == <<"Start", "Input">>

\* strum Display of T
T_to_string(names, step) == names[step + 1]
\* an EnumString that parses every variant name as the first variant
T_from_str_FirstVariant(names, name) ==
    IF \E i \in 1..Len(names) : names[i] = name THEN Some(0) ELSE None

\* strum EnumString of T
T_from_str(names, name) ==
    IF \E i \in 1..Len(names) : names[i] = name
    THEN Some((CHOOSE i \in 1..Len(names) : names[i] = name) - 1)
    ELSE None

\* impl Into<DialogEntity> for Dialog<T>, T given by its step names
T_into_DialogEntity(names, d) ==
    [user_id |-> d.user_id, command |-> d.command,
     step |-> T_to_string(names, d.current_step),
     data |-> {<<T_to_string(names, k), d.data[k]>> : k \in DOMAIN d.data}]

\* impl From<DialogEntity> for Dialog<T>; the step is unwrapped by the caller
T_from_DialogEntity(names, e) ==
    [user_id |-> e.user_id, command |-> e.command,
     current_step |-> T_from_str(names, e.step),
     data |-> [k \in {T_from_str(names, m[1])[1] : m \in e.data} |->
                 (CHOOSE m \in e.data : T_from_str(names, m[1]) = Some(k))[2]]]

\* Dialog::<Unsubscribe>::new
Dialog_Unsubscribe_new(user_id) ==
    [command |-> "/unsubscribe", user_id |-> user_id,
     current_step |-> Unsubscribe_Start,
     data |-> [k \in {} |-> EmptyString]]

\* Dialog::<Feedback>::new
Dialog_Feedback_new(user_id) ==
    [command |-> "/feedback", user_id |-> user_id,
     current_step |-> Feedback_Start,
     data |-> [k \in {} |-> EmptyString]]

\* DbClient::unsubscribe: DELETE ... WHERE user_id = ? AND subreddit = ?
db_unsubscribe(store, user_id, subreddit) ==
    SelectSeq(store, LAMBDA r : ~(r.user_id = user_id /\ r.subreddit = subreddit))

NoSubscriptions == <<"You have no subscriptions to unsubscribe from">>
SelectSubreddit(buttons) == <<"Select subreddit", buttons>>
Unsubscribed(payload) == <<"Unsubscribed from: ", payload>>

\* unsubscribe.rs:50-56: one button per subscription
Buttons(res) == [i \in 1..Len(res) |-> res[i].subreddit]

\* unsubscribe.rs:28-104; env.subscribe_ok says whether the statements on
\* table users_subscriptions succeed
Unsubscribe_handle_current_step(d0, payload, env, usrs, store, dlgs) ==
    LET d == [d0 EXCEPT !.data = data_insert(@, d0.current_step, payload)] IN
    CASE d.current_step = Unsubscribe_Start ->
            IF ~env.subscribe_ok THEN Outcome(store, dlgs, "Ok", <<>>)
            ELSE
              LET res == get_user_subscriptions(store, d.user_id) IN
              IF res = <<>>
              THEN IF env.gateway_ok
                   THEN Outcome(store, dlgs, "Ok", <<NoSubscriptions>>)
                   ELSE Outcome(store, dlgs, "TelegramError", <<>>)
              ELSE IF ~env.gateway_ok
              THEN Outcome(store, dlgs, "TelegramError", <<>>)
              ELSE
                LET d2 == [d EXCEPT !.current_step = Unsubscribe_Subreddit]
                    r == IF env.dialog_ok
                         THEN insert_or_update_dialog(dlgs, usrs,
                                T_into_DialogEntity(UnsubscribeStepNames, d2))
                         ELSE [res |-> "DatabaseError", dialogs |-> dlgs]
                IN  Outcome(store, r.dialogs, "Ok", <<SelectSubreddit(Buttons(res))>>)
      [] d.current_step = Unsubscribe_Subreddit ->
            LET subreddit == d.data[Unsubscribe_Subreddit] IN
            IF ~env.subscribe_ok THEN Outcome(store, dlgs, "Ok", <<>>)
            ELSE IF ~env.gateway_ok
            THEN Outcome(db_unsubscribe(store, d.user_id, subreddit), dlgs,
                         "TelegramError", <<>>)
            ELSE Outcome(db_unsubscribe(store, d.user_id, subreddit), dlgs,
                         "Ok", <<Unsubscribed(payload)>>)

\* the operator's chat id, handed to the Feedback dialog by its caller
AuthorId == "author"

PromptFeedback ==
    <<"You can write your feedback. If you want the author to get back to you, leave your email.">>
ReceivedInput(user_id, input) ==
    <<"Received input from user(", user_id, "):\n", input>>
FeedbackSent == <<"Sent your feedback to the author. Thanks for the input!">>

\* what a Feedback step leaves: the outcome, and the chat each text went to
FeedbackOutcome(dlgs, result, outbox, chats) ==
    [dialogs |-> dlgs, result |-> result, outbox |-> outbox, chats |-> chats]

\* faulty variant: the user is thanked before the input is relayed
feedback_sends_ConfirmFirst(author_id, user_id, input) ==
    << <<user_id, FeedbackSent>>,
       <<author_id, ReceivedInput(user_id, input)>> >>

\* the messages of the Input step as <<chat_id, text>>, in the order of the
\* send_message calls (feedback.rs:55-69)
feedback_sends(author_id, user_id, input) ==
    << <<author_id, ReceivedInput(user_id, input)>>,
       <<user_id, FeedbackSent>> >>

\* feedback.rs:29-74; env.relay_ok: the send to the author returns Ok,
\* env.gateway_ok: the send to the user returns Ok
Feedback_handle_current_step(d0, author_id, payload, env, usrs, dlgs) ==
    LET d == [d0 EXCEPT !.data = data_insert(@, d0.current_step, payload)] IN
    CASE d.current_step = Feedback_Start ->
            LET d2 == [d EXCEPT !.current_step = Feedback_Input]
                r == IF env.dialog_ok
                     THEN insert_or_update_dialog(dlgs, usrs,
                            T_into_DialogEntity(FeedbackStepNames, d2))
                     ELSE [res |-> "DatabaseError", dialogs |-> dlgs]
            IN  IF r.res # "Ok" THEN FeedbackOutcome(dlgs, r.res, <<>>, <<>>)
                ELSE IF ~env.gateway_ok
                THEN FeedbackOutcome(r.dialogs, "TelegramError", <<>>, <<>>)
                ELSE FeedbackOutcome(r.dialogs, "Ok", <<PromptFeedback>>,
                                     <<d.user_id>>)
      [] d.current_step = Feedback_Input ->
            LET input == d.data[Feedback_Input]
                msgs == feedback_sends(author_id, d.user_id, input)
                failed == {i \in 1..Len(msgs) :
                             IF msgs[i][1] = author_id THEN ~env.relay_ok
                             ELSE ~env.gateway_ok}
                n == IF failed = {} THEN Len(msgs)
                     ELSE (CHOOSE i \in failed : \A j \in failed : i <= j) - 1
                outbox == [i \in 1..n |-> msgs[i][2]]
                chats == [i \in 1..n |-> msgs[i][1]]
            IN  IF failed # {}
                THEN FeedbackOutcome(dlgs, "TelegramError", outbox, chats)
                ELSE IF ~env.dialog_ok
                THEN FeedbackOutcome(dlgs, "DatabaseError", outbox, chats)
                ELSE FeedbackOutcome(delete_dialog(dlgs, d.user_id), "Ok",
                                     outbox, chats)

(***************************************************************************)
(* The request path: one action per inbound update.                        *)
(***************************************************************************)
HelpText == <<"You can send me these commands:">>
NeedStart == <<"You need to call /start before setting up subscriptions">>
SayWhat == <<"Say what?">>

NoStep == -1
NoHandled ==
    [user |-> "", command |-> "", step |-> NoStep, result |-> "none",
     outbox |-> <<>>]
Handled(u, command, step, result, outbox) ==
    [user |-> u, command |-> command, step |-> step, result |-> result,
     outbox |-> outbox]

\* payloads of the inbound updates
Payloads ==
    { <<"rust">>, <<"aww">>, <<"r/", "rust", " ", "aww">>, <<"1">>, <<"7">> }

\* the payloads a user sends to the step the persisted dialog is at: for each
\* step one payload of every kind its handler tells apart (one or two names;
\* a weekday, a number that is no weekday, no number; an hour, no number;
\* the name on a button)
PayloadsAt(command, step) ==
    CASE command = "/subscribe" /\ step = "Subreddit" ->
            { <<"rust">>, <<"r/", "rust", " ", "aww">> }
      [] command = "/subscribe" /\ step = "Weekday" ->
            { <<"1">>, <<"7">>, <<"rust">> }
      [] command = "/subscribe" /\ step = "Time" ->
            { <<"7">>, <<"rust">> }
      [] command = "/unsubscribe" -> { <<"rust">>, <<"aww">> }
      [] OTHER -> { <<"rust">> }
\* the user who talks to the bot
DialogUsers == {"u1"}

\* the environments that differ for a handler at the given step
Envs(step, payload) ==
    [dialog_ok : BOOLEAN,
     subscribe_ok : IF step = Subscribe_Time THEN BOOLEAN ELSE {TRUE},
     gateway_ok : BOOLEAN,
     missing : IF step = Subscribe_Subreddit
               THEN SUBSET Range(parse_subreddits(payload))
               ELSE {{}}]

\* what a command that has no dialog leaves and answers
CommandOutcome(usrs, store, dlgs, result, outbox) ==
    [users |-> usrs, subs |-> store, dialogs |-> dlgs, result |-> result,
     outbox |-> outbox]

\* the environments of such a command: its statement on the store succeeds
\* (or is refused by a constraint), the gateway accepts its message
CommandEnvs == [store_ok : BOOLEAN, gateway_ok : BOOLEAN]

\* a /start that treats the unique violation as any other store error
commands_start_RejectsExisting(u, env, usrs, store, dlgs) ==
    LET r == IF env.store_ok THEN create_user(usrs, u)
             ELSE [res |-> "DatabaseError", users |-> usrs]
    IN  IF r.res # "Ok"
        THEN CommandOutcome(r.users, store, dlgs, "DatabaseError", <<>>)
        ELSE IF ~env.gateway_ok
        THEN CommandOutcome(r.users, store, dlgs, "TelegramError", <<>>)
        ELSE CommandOutcome(r.users, store, dlgs, "Ok", <<HelpText>>)

\* commands.rs:30-58
commands_start(u, env, usrs, store, dlgs) ==
    LET r == IF env.store_ok THEN create_user(usrs, u)
             ELSE [res |-> "DatabaseError", users |-> usrs]
    IN  IF r.res \notin {"Ok", "UniqueViolation"}
        THEN CommandOutcome(r.users, store, dlgs, r.res, <<>>)
        ELSE IF ~env.gateway_ok
        THEN CommandOutcome(r.users, store, dlgs, "TelegramError", <<>>)
        ELSE CommandOutcome(r.users, store, dlgs, "Ok", <<HelpText>>)

\* the command /start
start(u) ==
    /\ \E env \in CommandEnvs :
        LET out == commands_start(u, env, users, subs, dialogs)
        IN  /\ users' = out.users
            /\ handled' = Handled(u, "/start", NoStep, out.result, out.outbox)
    /\ UNCHANGED <<now, subs, schedVars, obsVars, sendNows, dialogs>>

UserDeleted == <<"User and subscriptions deleted">>

\* commands.rs:60-75
commands_stop(u, env, usrs, store, dlgs) ==
    IF ~env.store_ok
    THEN CommandOutcome(usrs, store, dlgs, "DatabaseError", <<>>)
    ELSE LET r == delete_user(usrs, store, dlgs, u)
         IN  IF ~env.gateway_ok
             THEN CommandOutcome(r.users, r.subs, r.dialogs, "TelegramError", <<>>)
             ELSE CommandOutcome(r.users, r.subs, r.dialogs, "Ok", <<UserDeleted>>)

\* the command /stop
stop(u) ==
    /\ \E env \in CommandEnvs :
        LET out == commands_stop(u, env, users, subs, dialogs)
        IN  /\ users' = out.users
            /\ subs' = out.subs
            /\ dialogs' = out.dialogs
            /\ handled' = Handled(u, "/stop", NoStep, out.result, out.outbox)
    /\ UNCHANGED <<now, schedVars, obsVars, sendNows>>

NothingYet ==
    <<"You haven't subscribed to anything yet. Subscribe using /subscribe command.">>
SubscribedTo(names) == <<"You are currently subscribed to:\n", names>>

\* a /subscriptions that reads the rows with `if let Ok`
commands_subscriptions_IgnoresError(u, env, usrs, store, dlgs) ==
    IF ~env.store_ok
    THEN CommandOutcome(usrs, store, dlgs, "Ok", <<>>)
    ELSE LET res == get_user_subscriptions(store, u)
             text == IF res = <<>> THEN NothingYet
                     ELSE SubscribedTo([i \in 1..Len(res) |->
                                          res[i].subreddit \o <<"\n">>])
         IN  IF ~env.gateway_ok
             THEN CommandOutcome(usrs, store, dlgs, "TelegramError", <<>>)
             ELSE CommandOutcome(usrs, store, dlgs, "Ok", <<text>>)

\* commands.rs:115-144
commands_subscriptions(u, env, usrs, store, dlgs) ==
    IF ~env.store_ok
    THEN CommandOutcome(usrs, store, dlgs, "DatabaseError", <<>>)
    ELSE LET res == get_user_subscriptions(store, u)
             text == IF res = <<>> THEN NothingYet
                     ELSE SubscribedTo([i \in 1..Len(res) |->
                                          res[i].subreddit \o <<"\n">>])
         IN  IF ~env.gateway_ok
             THEN CommandOutcome(usrs, store, dlgs, "TelegramError", <<>>)
             ELSE CommandOutcome(usrs, store, dlgs, "Ok", <<text>>)

\* the command /subscriptions
subscriptions(u) ==
    /\ \E env \in CommandEnvs :
        LET out == commands_subscriptions(u, env, users, subs, dialogs)
        IN  handled' = Handled(u, "/subscriptions", NoStep, out.result,
                               out.outbox)
    /\ UNCHANGED <<now, subs, schedVars, obsVars, sendNows, users, dialogs>>

\* commands.rs:174-205: the tables, the digest counters, the result and the
\* messages other than digests of commands::send_now; ok and gateway_ok say
\* whether the read of the subscriptions and the send of the text succeed,
\* choice[i] what the pipeline of the i-th subscription meets
commands_send_now(u, ok, gateway_ok, choice, store, dg, t) ==
    LET list == get_user_subscriptions(store, u)
        w0 == [subs |-> store, digests |-> dg, result |-> "Ok",
               feasible |-> TRUE, outbox |-> <<>>]
    IN  IF ~ok THEN [w0 EXCEPT !.result = "DatabaseError"]
        ELSE IF Len(list) = 0
        THEN IF gateway_ok THEN [w0 EXCEPT !.outbox = <<NothingYet>>]
             ELSE [w0 EXCEPT !.result = "TelegramError"]
        ELSE LET w == send_now_loop(w0, list, 1, choice, t)
             IN  IF w.result = "Panic" THEN w ELSE [w EXCEPT !.result = "Ok"]

\* the command /sendnow
SendNow(u) ==
    /\ sendNows < MaxSendNow
    /\ sendNows' = sendNows + 1
    /\ \E ok \in BOOLEAN, gateway_ok \in BOOLEAN :
         \E choice \in [1..Len(get_user_subscriptions(subs, u)) -> PipelineCases] :
            LET w == commands_send_now(u, ok, gateway_ok, choice, subs,
                                       digests, now)
            IN /\ w.feasible
               /\ subs' = w.subs
               /\ digests' = w.digests
    /\ UNCHANGED <<now, schedVars, schedDigests, lost, dialogVars>>

\* commands.rs:77-103: the tables, the result and the messages of
\* commands::subscribe in environment env
commands_subscribe(u, env, usrs, store, dlgs, t) ==
    LET out == handle_current_step(Dialog_Subscribe_new(u), EmptyString,
                                   env, usrs, store, dlgs, t)
    IN  IF out.result = "ForeignKeyViolation"
        THEN IF env.gateway_ok
             THEN Outcome(out.subs, out.dialogs, "Ok", <<NeedStart>>)
             ELSE Outcome(out.subs, out.dialogs, "TelegramError", <<>>)
        ELSE IF out.result = "DatabaseError"
        THEN Outcome(out.subs, out.dialogs, "Ok", <<>>)
        ELSE out

\* the command /subscribe
subscribe(u) ==
    /\ \E env \in Envs(Subscribe_Start, EmptyString) :
        LET out == commands_subscribe(u, env, users, subs, dialogs, now)
        IN  /\ dialogs' = out.dialogs
            /\ subs' = out.subs
            /\ handled' = Handled(u, "/subscribe", Subscribe_Start,
                                  out.result, out.outbox)
    /\ UNCHANGED <<now, schedVars, obsVars, sendNows, users>>

UnsubscribeEnvs ==
    [dialog_ok : BOOLEAN, subscribe_ok : BOOLEAN, gateway_ok : BOOLEAN]
FeedbackEnvs ==
    [dialog_ok : BOOLEAN, relay_ok : BOOLEAN, gateway_ok : BOOLEAN]

\* commands.rs:105-113
commands_unsubscribe(u, env, usrs, store, dlgs) ==
    Unsubscribe_handle_current_step(Dialog_Unsubscribe_new(u), EmptyString,
                                    env, usrs, store, dlgs)

\* the command /unsubscribe
unsubscribe(u) ==
    /\ \E env \in UnsubscribeEnvs :
        LET out == commands_unsubscribe(u, env, users, subs, dialogs)
        IN  /\ dialogs' = out.dialogs
            /\ subs' = out.subs
            /\ handled' = Handled(u, "/unsubscribe", Unsubscribe_Start,
                                  out.result, out.outbox)
    /\ UNCHANGED <<now, schedVars, obsVars, sendNows, users>>

NeedStartFeedback == <<"You need to call /start before interacting with me">>

\* commands.rs:146-172
commands_feedback(author_id, u, env, usrs, dlgs) ==
    LET out == Feedback_handle_current_step(Dialog_Feedback_new(u), author_id,
                                            EmptyString, env, usrs, dlgs)
    IN  IF out.result = "ForeignKeyViolation"
        THEN IF env.gateway_ok
             THEN FeedbackOutcome(out.dialogs, "Ok", <<NeedStartFeedback>>, <<u>>)
             ELSE FeedbackOutcome(out.dialogs, "TelegramError", <<>>, <<>>)
        ELSE IF out.result = "DatabaseError"
        THEN FeedbackOutcome(out.dialogs, "Ok", <<>>, <<>>)
        ELSE out

\* the command /feedback
feedback(author_id, u) ==
    /\ \E env \in FeedbackEnvs :
        LET out == commands_feedback(author_id, u, env, users, dialogs)
        IN  /\ dialogs' = out.dialogs
            /\ handled' = Handled(u, "/feedback", Feedback_Start,
                                  out.result, out.outbox)
    /\ UNCHANGED <<now, subs, schedVars, obsVars, sendNows, users>>

\* resume(persisted_state) and advance(payload) for a row of /subscribe
ResumeSubscribe(u, row, payload) ==
    \E env \in Envs(unwrap_or(Subscribe_from_str(row.step), NoStep), payload) :
        LET d == from_DialogEntity(row) IN
        IF d.current_step = None
        THEN /\ handled' = Handled(u, d.command, NoStep, "Panic", <<>>)
             /\ UNCHANGED <<subs, dialogs>>
        ELSE LET step == d.current_step[1]
                 out == handle_current_step(
                           [d EXCEPT !.current_step = step], payload,
                           env, users, subs, dialogs, now)
             IN  /\ \A i \in 1..Len(out.subs) : out.subs[i].id <= MaxRows
                 /\ dialogs' = out.dialogs
                 /\ subs' = out.subs
                 /\ handled' = Handled(u, d.command, step, out.result, out.outbox)

\* resume(persisted_state) and advance(payload) for a row of /unsubscribe
ResumeUnsubscribe(u, row, payload) ==
    \E env \in UnsubscribeEnvs :
        LET d == T_from_DialogEntity(UnsubscribeStepNames, row) IN
        IF d.current_step = None
        THEN /\ handled' = Handled(u, d.command, NoStep, "Panic", <<>>)
             /\ UNCHANGED <<subs, dialogs>>
        ELSE LET step == d.current_step[1]
                 out == Unsubscribe_handle_current_step(
                           [d EXCEPT !.current_step = step], payload,
                           env, users, subs, dialogs)
             IN  /\ dialogs' = out.dialogs
                 /\ subs' = out.subs
                 /\ handled' = Handled(u, d.command, step, out.result, out.outbox)

\* resume(persisted_state) and advance(payload) for a row of /feedback
ResumeFeedback(u, row, payload) ==
    \E env \in FeedbackEnvs :
        LET d == T_from_DialogEntity(FeedbackStepNames, row) IN
        IF d.current_step = None
        THEN /\ handled' = Handled(u, d.command, NoStep, "Panic", <<>>)
             /\ UNCHANGED <<subs, dialogs>>
        ELSE LET step == d.current_step[1]
                 out == Feedback_handle_current_step(
                           [d EXCEPT !.current_step = step], AuthorId, payload,
                           env, users, dialogs)
             IN  /\ dialogs' = out.dialogs
                 /\ subs' = subs
                 /\ handled' = Handled(u, d.command, step, out.result, out.outbox)

\* dispatch of an update that is no command: the user's persisted dialog is
\* resumed at its step, a user without one is told "Say what?"
handle_message(u, payload) ==
    /\ LET row == get_users_dialog(dialogs, u) IN
       IF row = None
       THEN /\ \E gateway_ok \in BOOLEAN :
                 handled' = IF gateway_ok
                            THEN Handled(u, "", NoStep, "Ok", <<SayWhat>>)
                            ELSE Handled(u, "", NoStep, "TelegramError", <<>>)
            /\ UNCHANGED <<subs, dialogs>>
       ELSE CASE row[1].command = "/subscribe" ->
                    ResumeSubscribe(u, row[1], payload)
              [] row[1].command = "/unsubscribe" ->
                    ResumeUnsubscribe(u, row[1], payload)
              [] row[1].command = "/feedback" ->
                    ResumeFeedback(u, row[1], payload)
    /\ UNCHANGED <<now, schedVars, obsVars, sendNows, users>>

\* the payloads the user sends next
NextPayloads(u) ==
    IF dialogs[u] = None THEN PayloadsAt("", "")
    ELSE PayloadsAt(dialogs[u][1].command, dialogs[u][1].step)

(***************************************************************************)
(* Specification of the scheduler, the clock and /sendnow.                 *)
(***************************************************************************)
Init ==
    /\ now = [day |-> 0, hour |-> 0]
    /\ subs \in InitStores
    /\ schedPc = "load"
    /\ snapshot = <<>>
    /\ idx = 1
    /\ posts = <<>>
    /\ config = [token |-> "token", database_url |-> "bot.db"]
    /\ run = NoRun
    /\ digests = NoDigests
    /\ schedDigests = NoDigests
    /\ lost = NoDigests
    /\ sendNows = 0
    /\ users = UserIds
    /\ dialogs = [u \in UserIds |-> None]
    /\ handled = NoHandled

Next ==
    \/ SchedLoad
    \/ SchedCheck
    \/ SchedFetch
    \/ SchedSend
    \/ SchedUpdate
    \/ SchedSleep
    \/ SchedRestart
    \/ Tick
    \/ \E u \in UserIds : SendNow(u)

Spec == Init /\ [][Next]_vars

\* the scheduler thread and the clock alone
FairNext ==
    \/ SchedLoad
    \/ SchedCheck
    \/ SchedFetch
    \/ SchedSend
    \/ SchedUpdate
    \/ SchedSleep
    \/ SchedRestart
    \/ Tick

\* task.rs:66: thread::sleep(10 s) returns, so a scheduler that sleeps
\* begins its next iteration
FairSpec == Init /\ [][FairNext]_vars /\ WF_vars(SchedSleep)

(***************************************************************************)
(* Specification of the request path driving the Subscribe dialog.         *)
(***************************************************************************)
DialogInit ==
    /\ now = [day |-> 0, hour |-> 0]
    /\ subs = <<>>
    /\ schedPc = "load"
    /\ snapshot = <<>>
    /\ idx = 1
    /\ posts = <<>>
    /\ config = [token |-> "token", database_url |-> "bot.db"]
    /\ run = NoRun
    /\ digests = NoDigests
    /\ schedDigests = NoDigests
    /\ lost = NoDigests
    /\ sendNows = 0
    /\ users = {}
    /\ dialogs = [u \in UserIds |-> None]
    /\ handled = NoHandled

DialogNext ==
    \/ \E u \in DialogUsers : start(u)
    \/ \E u \in DialogUsers : subscribe(u)
    \/ \E u \in DialogUsers : unsubscribe(u)
    \/ \E u \in DialogUsers : feedback(AuthorId, u)
    \/ \E u \in DialogUsers : stop(u)
    \/ \E u \in DialogUsers : subscriptions(u)
    \/ \E u \in DialogUsers : \E payload \in NextPayloads(u) : handle_message(u, payload)

DialogSpec == DialogInit /\ [][DialogNext]_vars

(***************************************************************************)
(* Specification of the scheduler thread interleaved with the requests     *)
(* that remove subscriptions: the two contexts share only the store, the   *)
(* scheduler iterates over the list it read at the start of its iteration. *)
(***************************************************************************)
\* the scenario starts at the hour the rows are due, none was sent yet; the
\* clock stands still while the two contexts interleave
RaceInit ==
    /\ now = [day |-> 0, hour |-> HourStep]
    /\ subs \in { st \in InitStores :
                    \A i \in 1..Len(st) : /\ st[i].send_on = 0
                                         /\ st[i].send_at = HourStep
                                         /\ st[i].last_sent_at = None }
    /\ schedPc = "load"
    /\ snapshot = <<>>
    /\ idx = 1
    /\ posts = <<>>
    /\ config = [token |-> "token", database_url |-> "bot.db"]
    /\ run = NoRun
    /\ digests = NoDigests
    /\ schedDigests = NoDigests
    /\ lost = NoDigests
    /\ sendNows = 0
    /\ users = UserIds
    /\ dialogs = [u \in UserIds |-> None]
    /\ handled = NoHandled

RaceNext ==
    \/ SchedLoad
    \/ SchedCheck
    \/ SchedFetch
    \/ SchedSend
    \/ SchedUpdate
    \/ SchedSleep
    \/ SchedRestart
    \/ unsubscribe("u1")
    \/ stop("u1")
    \/ \E payload \in NextPayloads("u1") : handle_message("u1", payload)

RaceSpec == RaceInit /\ [][RaceNext]_vars

(***************************************************************************)
(* Resuming from any persisted row: the store holds, for a registered      *)
(* user, a row a dialog wrote at one of its steps, or such a row whose step *)
(* name is not one of the command's; the user sends the next payload.      *)
(***************************************************************************)
\* the step names of the dialog type a command belongs to
StepNamesOf(command) ==
    CASE command = "/subscribe" -> StepNames
      [] command = "/unsubscribe" -> UnsubscribeStepNames
      [] command = "/feedback" -> FeedbackStepNames

\* step names found in a row: those of the three dialogs, and "One" of the
\* store's test
PersistedStepNames == {"Start", "Subreddit", "Weekday", "Time", "Input", "One"}

\* the dialogs in memory after the handler of the step before current_step
\* stored its payload
DialogsInMemory(u) ==
    { [command |-> "/subscribe", user_id |-> u,
       current_step |-> Subscribe_Subreddit,
       data |-> (Subscribe_Start :> EmptyString)] }
    \cup
    { [command |-> "/subscribe", user_id |-> u,
       current_step |-> Subscribe_Weekday,
       data |-> (Subscribe_Start :> EmptyString
                 @@ Subscribe_Subreddit :> names)] :
        names \in PayloadsAt("/subscribe", "Subreddit") }
    \cup
    { [command |-> "/subscribe", user_id |-> u,
       current_step |-> Subscribe_Time,
       data |-> (Subscribe_Start :> EmptyString
                 @@ Subscribe_Subreddit :> names
                 @@ Subscribe_Weekday :> day)] :
        names \in PayloadsAt("/subscribe", "Subreddit"),
        day \in PayloadsAt("/subscribe", "Weekday") }
    \cup
    { [command |-> "/unsubscribe", user_id |-> u,
       current_step |-> Unsubscribe_Subreddit,
       data |-> (Unsubscribe_Start :> EmptyString)],
      [command |-> "/feedback", user_id |-> u,
       current_step |-> Feedback_Input,
       data |-> (Feedback_Start :> EmptyString)] }

\* the rows of these dialogs, and the same rows with a step name that is not
\* one of the command's
PersistedRows(u) ==
    LET rows == { T_into_DialogEntity(StepNamesOf(d.command), d) :
                    d \in DialogsInMemory(u) }
    IN  rows \cup
        UNION { { [e EXCEPT !.step = name] :
                    name \in {n \in PersistedStepNames :
                        T_from_str(StepNamesOf(e.command), n) = None} } :
                e \in rows }

ResumeInit ==
    /\ now = [day |-> 0, hour |-> 0]
    /\ subs = <<>>
    /\ schedPc = "load"
    /\ snapshot = <<>>
    /\ idx = 1
    /\ posts = <<>>
    /\ config = [token |-> "token", database_url |-> "bot.db"]
    /\ run = NoRun
    /\ digests = NoDigests
    /\ schedDigests = NoDigests
    /\ lost = NoDigests
    /\ sendNows = 0
    /\ users = DialogUsers
    /\ \E u \in DialogUsers :
          \E e \in PersistedRows(u) :
              dialogs = [v \in UserIds |-> IF v = u THEN Some(e) ELSE None]
    /\ handled = NoHandled

ResumeNext ==
    \E u \in DialogUsers :
        /\ dialogs[u] # None
        /\ \E payload \in NextPayloads(u) : handle_message(u, payload)

ResumeSpec == ResumeInit /\ [][ResumeNext]_vars

(***************************************************************************)
(* One Subscribe dialog over every raw payload: the user has called /start *)
(* and /subscribe, sends any text of up to MaxLen tokens as the names,     *)
(* picks a weekday and an hour.                                            *)
(***************************************************************************)
RawTokens == {"r/", "rust", "aww", " ", "\n"}
RawPayloads == UNION { [1..n -> RawTokens] : n \in 0..MaxLen }

\* every call the handler makes succeeds
AllOk == [dialog_ok |-> TRUE, subscribe_ok |-> TRUE, gateway_ok |-> TRUE,
          missing |-> {}]

\* the payloads sent to the step the dialog is at
RawPayloadsAt(step) ==
    CASE step = "Subreddit" -> RawPayloads
      [] step = "Weekday" -> { <<"1">> }
      [] step = "Time" -> { <<"7">> }
      [] OTHER -> {}

ParseInit ==
    /\ now = [day |-> 0, hour |-> 0]
    /\ subs = <<>>
    /\ schedPc = "load"
    /\ snapshot = <<>>
    /\ idx = 1
    /\ posts = <<>>
    /\ config = [token |-> "token", database_url |-> "bot.db"]
    /\ run = NoRun
    /\ digests = NoDigests
    /\ schedDigests = NoDigests
    /\ lost = NoDigests
    /\ sendNows = 0
    /\ users = DialogUsers
    /\ \E u \in DialogUsers :
         LET out == handle_current_step(Dialog_Subscribe_new(u), EmptyString,
                        AllOk, DialogUsers, <<>>, [v \in UserIds |-> None],
                        [day |-> 0, hour |-> 0])
         IN  /\ dialogs = out.dialogs
             /\ handled = Handled(u, "/subscribe", Subscribe_Start,
                                  out.result, out.outbox)

ParseNext ==
    \E u \in DialogUsers :
        /\ dialogs[u] # None
        /\ \E payload \in RawPayloadsAt(dialogs[u][1].step) :
                handle_message(u, payload)

ParseSpec == ParseInit /\ [][ParseNext]_vars

TypeOK ==
    /\ now \in Times
    /\ schedPc \in {"load", "check", "fetch", "send", "update", "sleep",
                    "panicked", "dead"}
    /\ idx \in 1..(Len(snapshot) + 1)
    /\ \A i \in SubIds : digests[i] \in 0..MaxDigests

(***************************************************************************)
(* Properties of the scheduler and the delivery pipeline.                  *)
(***************************************************************************)
\* the due predicate as the specification states it
SentOn(s, d) ==
    /\ s.last_sent_at # None
    /\ date(parse_datetime(s.last_sent_at[1]).value) = d
DuePredicate(s, t) ==
    /\ weekday(t) = s.send_on
    /\ hour(t) >= s.send_at
    /\ (s.last_sent_at = None \/ ~SentOn(s, date(t)))

\* what task.rs:31-48 decides for s at t
CodeDue(s, t) ==
    /\ Weekday_from_i32(s.send_on) # None
    /\ ~NotYet(s, t)
    /\ ~AlreadySentToday(s, t)

\* C1: whenever a scheduler iteration examines a subscription s at the
\* instant now, it runs the delivery pipeline for s if and only if
\* weekday(now) = s.send_on, hour(now) >= s.send_at and last_sent_at is
\* absent or of another date than now.
C1_DueIffPredicate ==
    [][SchedCheck =>
        ((schedPc' = "fetch") <=> DuePredicate(snapshot[idx], now))]_vars

C3_NoCallsOnceSentToday ==
    [][ /\ SchedLoad => snapshot' \in {<<>>, subs}
        /\ (SchedCheck /\ SentOn(snapshot[idx], date(now))) =>
              /\ schedPc' \notin {"fetch", "send", "update"}
              /\ UNCHANGED <<subs, digests, schedDigests>> ]_vars

\* C3 witness: the scheduler delivered a subscription today, the store says
\* so, and a later examination on its weekday after its hour skipped it
C3_Witness ==
    \E i \in 1..Len(subs) :
        /\ run.id = subs[i].id
        /\ run.result = "skipped"
        /\ schedDigests[subs[i].id] = 1
        /\ SentOn(subs[i], date(now))
        /\ Weekday_from_i32(subs[i].send_on) # None
        /\ ~NotYet(subs[i], now)

\* C4: a pipeline run whose fetch failed or whose send failed has
\* returned an error and has not written last_sent_at.
C4_FailureReturnsErrorUnmarked ==
    (run.fetch \in {"err", "panic"} \/ run.send \notin {"none", "ok"})
        => (run.result = "Err" /\ ~run.wrote)

\* C5: once fetch and send of a scheduler run have both succeeded for a
\* subscription, the subscription is not due again on that day.
C5_NotDueAfterDelivery ==
    (/\ run.send = "ok"
     /\ run.update # "none"
     /\ run.day = date(now)
     /\ HasRow(subs, run.id))
        => ~CodeDue(RowOf(subs, run.id), now)

\* C6: when the pipeline fails for one due subscription, every other due
\* subscription the iteration listed is still run through the pipeline:
\* an iteration does not end on a pipeline failure with due subscriptions
\* left unexamined.
C6_FailureIsolation ==
    (schedPc = "panicked" /\ run.result = "Panic")
        => \A j \in (idx + 1)..Len(snapshot) : ~CodeDue(snapshot[j], now)

\* C7: after an abort of the scheduler loop a new loop is started with the
\* same configuration; the scheduler is never permanently dead.
C7_NeverDead ==
    schedPc # "dead"

\* C8: a successful last-sent update of the pipeline sets last_sent_at of
\* the subscription to the current time, after which the due predicate is
\* false for it at every time of that UTC day.
C8_SuccessMarksSentToday ==
    [][(SchedUpdate /\ run'.update = "ok") =>
        \A i \in 1..Len(subs') :
            subs'[i].id = snapshot[idx].id =>
                /\ subs'[i].last_sent_at = Some(to_rfc3339(now))
                /\ \A t \in Times :
                     date(t) = date(now) =>
                        ~DuePredicate(subs'[i], t) /\ ~CodeDue(subs'[i], t)]_vars

\* C8 witness: a scheduler run returned Ok and the row carries the time
C8_Witness ==
    /\ run.result = "Ok"
    /\ run.wrote
    /\ \E i \in 1..Len(subs) :
        /\ subs[i].id = run.id
        /\ subs[i].last_sent_at = Some(to_rfc3339(now))
        /\ now.hour > 0

\* C9: a pipeline run whose fetch returned zero items sends the header
\* line of the topic and nothing else, and goes on to the last-sent update
\* when the gateway reports success.
C9_EmptyDigestStillSent ==
    (run.fetch = "ok" /\ run.items = 0 /\ run.send # "none") =>
        /\ HasRow(snapshot, run.id)
        /\ run.text = Header(RowOf(snapshot, run.id).subreddit)
        /\ run.send = "ok" =>
              \/ schedPc = "update" /\ run.result = "running"
              \/ run.update = "ok" /\ run.result = "Ok" /\ run.wrote
              \/ run.update = "err" /\ run.result = "Err"

\* C9 witness: a run with zero items sent its message and marked the row
C9_Witness ==
    /\ run.fetch = "ok"
    /\ run.items = 0
    /\ run.send = "ok"
    /\ run.result = "Ok"
    /\ run.wrote
    /\ Len(run.text) = 3

(***************************************************************************)
(* Properties of the Subscribe dialog.                                     *)
(***************************************************************************)
\* the step of the user's Subscribe dialog in table dialogs ("none" when the
\* user has no row or the row belongs to another command's dialog)
PersistedStep(dlgs, u) ==
    IF dlgs[u] = None \/ dlgs[u][1].command # "/subscribe"
    THEN "none"
    ELSE dlgs[u][1].step

\* the handler told the user to try again
Reprompted(h) ==
    \E i \in 1..Len(h.outbox) : h.outbox[i][1] = "Invalid subreddit - "

\* C10: every update the bot handles changes the persisted step of the
\* user's Subscribe dialog by at most one transition, and only along
\* Start -> Subreddit -> Weekday -> Time -> (row deleted): the row a
\* /subscribe command writes for its fresh dialog (in memory at Start) is at
\* Subreddit, a payload moves the row from Subreddit to Weekday, from
\* Weekday to Time, or deletes a row at Time, and otherwise leaves it as it
\* is; no step named Start is ever persisted; a re-prompt leaves the row
\* unchanged.  The dialog ends without a transition when the start of
\* another command's dialog replaces the row or /stop deletes it with the
\* user.
C10_StepOrder ==
    [][\A u \in UserIds :
        LET before == PersistedStep(dialogs, u)
            after == PersistedStep(dialogs', u)
        IN  /\ \/ after = before
               \/ subscribe(u) /\ after = "Subreddit"
               \/ /\ unsubscribe(u) \/ feedback(AuthorId, u) \/ stop(u)
                  /\ after = "none"
               \/ /\ \E payload \in Payloads : handle_message(u, payload)
                  /\ <<before, after>> \in
                        { <<"Subreddit", "Weekday">>, <<"Weekday", "Time">>,
                          <<"Time", "none">> }
            /\ after # "Start"
            /\ Reprompted(handled') => dialogs'[u] = dialogs[u]
      ]_vars

\* C10 witness: a dialog went through all its steps: the Time step was
\* handled, stored a subscription and deleted the row
C10_Witness ==
    \E u \in DialogUsers :
        /\ handled.user = u
        /\ handled.command = "/subscribe"
        /\ handled.step = Subscribe_Time
        /\ handled.result = "Ok"
        /\ dialogs[u] = None
        /\ \E i \in 1..Len(subs) : subs[i].user_id = u

(***************************************************************************)
(* C11: what a completed Subscribe dialog leaves in the store.             *)
(***************************************************************************)
\* the handler sent this text
Sent(h, text) == \E i \in 1..Len(h.outbox) : h.outbox[i] = text

\* the store holds a subscription with these fields
HasSubscription(store, u, t, d, h) ==
    \E i \in 1..Len(store) :
        /\ store[i].user_id = u /\ store[i].subreddit = t
        /\ store[i].send_on = d /\ store[i].send_at = h

\* the store holds a subscription of the user to the topic
IsSubscribed(store, u, t) ==
    \E i \in 1..Len(store) : store[i].user_id = u /\ store[i].subreddit = t

\* this step is the Time step of u's Subscribe dialog, handled to the end
\* with payload as the hour
CompletesSubscribe(u, payload) ==
    /\ handled'.command = "/subscribe"
    /\ handled'.step = Subscribe_Time
    /\ handled'.result = "Ok"
    /\ handle_message(u, payload)

AttemptedNames(h) ==
    LET named == SelectSeq(h.outbox,
                    LAMBDA m : m[1] \in {"Subscribed to: ",
                                         "Already subscribed to "})
    IN  [i \in 1..Len(named) |-> named[i][2]]

\* C12: when the Time step has subscribed the user, the names it tried to
\* create a subscription for are the normalized names of the raw payload of
\* the Subreddit step (the list validated there): one attempt for each of
\* them and none for any other string.
C12_AttemptsAreValidatedNames ==
    [][\A u \in DialogUsers, payload \in Payloads :
        (CompletesSubscribe(u, payload)
            /\ ~Sent(handled', SomethingWentWrong)) =>
            LET d == from_DialogEntity(dialogs[u][1])
                validated == parse_subreddits(d.data[Subscribe_Subreddit])
                attempted == AttemptedNames(handled')
            IN  /\ Range(attempted) = Range(validated)
                /\ Len(attempted) = Len(validated)
      ]_vars

(***************************************************************************)
(* C13: a name the Content Source rejects at the Subreddit step.           *)
(***************************************************************************)
\* u's persisted dialog is a Subscribe dialog at this step
SubscribeAt(u, step) ==
    /\ dialogs[u] # None
    /\ dialogs[u][1].command = "/subscribe"
    /\ dialogs[u][1].step = Subscribe_to_string(step)

\* C13: whenever a Subscribe dialog is at the Subreddit step, for every
\* payload of which the Content Source rejects a normalized name, the
\* handler leaves tables users_subscriptions and dialogs as they are (no
\* subscription, the row still at Subreddit) and sends nothing but the
\* re-prompt naming a rejected name; it returns Ok when the gateway took
\* the re-prompt.
C13_InvalidNameReprompts ==
    \A u \in DialogUsers :
        SubscribeAt(u, Subscribe_Subreddit) =>
            \A payload \in Payloads :
                \A env \in Envs(Subscribe_Subreddit, payload) :
                    LET d == from_DialogEntity(dialogs[u][1])
                        out == handle_current_step(
                                  [d EXCEPT !.current_step = @[1]], payload,
                                  env, users, subs, dialogs, now)
                    IN  env.missing # {} =>
                            /\ out.subs = subs
                            /\ out.dialogs = dialogs
                            /\ PersistedStep(out.dialogs, u) = "Subreddit"
                            /\ IF env.gateway_ok
                               THEN /\ out.result = "Ok"
                                    /\ \E name \in env.missing :
                                          out.outbox = <<InvalidSubreddit(name)>>
                               ELSE /\ out.result = "TelegramError"
                                    /\ out.outbox = <<>>

\* C13 witness: the Content Source rejected the name rust of the payload;
\* the user got the re-prompt and the dialog is still at Subreddit, with no
\* subscription stored
C13_Witness ==
    \E u \in DialogUsers :
        /\ handled.user = u
        /\ handled.command = "/subscribe"
        /\ handled.step = Subscribe_Subreddit
        /\ handled.result = "Ok"
        /\ handled.outbox = <<InvalidSubreddit(<<"rust">>)>>
        /\ SubscribeAt(u, Subscribe_Subreddit)
        /\ subs = <<>>

(***************************************************************************)
(* C14: a topic the user is already subscribed to, at the Time step.       *)
(***************************************************************************)
\* this step is the Time step of u's Subscribe dialog with payload as the
\* hour, in which no call to the gateway or the store failed for a reason
\* other than a constraint
HandlesTime(u, payload) ==
    /\ handled'.command = "/subscribe"
    /\ handled'.step = Subscribe_Time
    /\ handled'.result \notin {"TelegramError", "DatabaseError"}
    /\ ~Sent(handled', SomethingWentWrong)
    /\ handle_message(u, payload)

\* C14: when the Time step meets a topic the user is already subscribed to
\* (the creation fails with a unique violation), the user is told "Already
\* subscribed" for it, every topic of the dialog has been tried (each has
\* its subscription afterwards), and the dialog ends with its row in table
\* dialogs deleted.
C14_UniqueViolationDoesNotAbort ==
    [][\A u \in DialogUsers, payload \in Payloads :
        HandlesTime(u, payload) =>
            LET d == from_DialogEntity(dialogs[u][1])
                topics == time_step_subreddits(d.data[Subscribe_Subreddit])
                known == {i \in 1..Len(topics) : IsSubscribed(subs, u, topics[i])}
            IN  known # {} =>
                    /\ \A i \in known : Sent(handled', AlreadySubscribed(topics[i]))
                    /\ \A i \in 1..Len(topics) : IsSubscribed(subs', u, topics[i])
                    /\ handled'.result = "Ok"
                    /\ dialogs'[u] = None
      ]_vars

(***************************************************************************)
(* C15: (user_id, subreddit) is unique in table users_subscriptions.       *)
(***************************************************************************)
\* the rows of the store for this pair
RowsFor(store, u, t) ==
    {i \in 1..Len(store) : store[i].user_id = u /\ store[i].subreddit = t}

\* C15: the store never holds two subscriptions of one user to one topic,
\* and creating a subscription for a pair it holds fails, whatever the
\* weekday and hour, with the unique violation, which is neither success
\* nor any other failure, and leaves the table with its one row for the pair.
C15_OneSubscriptionPerUserAndTopic ==
    /\ \A i, j \in 1..Len(subs) :
          (subs[i].user_id = subs[j].user_id
              /\ subs[i].subreddit = subs[j].subreddit) => i = j
    /\ \A i \in 1..Len(subs) :
          \A send_on \in SendOnValues, send_at \in SendAtValues :
            LET r == db_subscribe(subs, users, subs[i].user_id,
                                  subs[i].subreddit, send_on, send_at, now)
            IN  /\ r.res = "UniqueViolation"
                /\ r.subs = subs
                /\ Cardinality(RowsFor(r.subs, subs[i].user_id,
                                        subs[i].subreddit)) = 1

\* C15 witness: the Time step tried to subscribe the user to rust a second
\* time and got the unique violation; the store holds one row for the pair
C15_Witness ==
    \E u \in DialogUsers :
        /\ handled.user = u
        /\ handled.step = Subscribe_Time
        /\ Sent(handled, AlreadySubscribed(<<"rust">>))
        /\ Cardinality(RowsFor(subs, u, <<"rust">>)) = 1

(***************************************************************************)
(* C16: /unsubscribe by a user without subscriptions.                      *)
(***************************************************************************)
\* the store holds no subscription of the user
NoSubscriptionOf(store, u) == \A i \in 1..Len(store) : store[i].user_id # u

\* C16: in every state, for every user without a subscription, registered
\* or not, the /unsubscribe command whose read of the store and whose send
\* succeed replies "You have no subscriptions to unsubscribe from" and
\* nothing else, returns Ok and leaves tables dialogs and
\* users_subscriptions as they are.
C16_NothingToUnsubscribeFrom ==
    \A u \in UserIds :
        NoSubscriptionOf(subs, u) =>
            \A env \in UnsubscribeEnvs :
                (env.subscribe_ok /\ env.gateway_ok) =>
                    LET out == Unsubscribe_handle_current_step(
                                  Dialog_Unsubscribe_new(u), EmptyString, env,
                                  users, subs, dialogs)
                    IN  /\ out.result = "Ok"
                        /\ out.outbox = <<NoSubscriptions>>
                        /\ out.dialogs = dialogs
                        /\ out.subs = subs

\* C16 witness: a user with no row in table users and no subscription sent
\* /unsubscribe, got the reply and has no row in table dialogs
C16_Witness ==
    \E u \in DialogUsers :
        /\ u \notin users
        /\ NoSubscriptionOf(subs, u)
        /\ handled = Handled(u, "/unsubscribe", Unsubscribe_Start, "Ok",
                             <<NoSubscriptions>>)
        /\ dialogs[u] = None

(***************************************************************************)
(* C17: the Subreddit step of the Unsubscribe dialog.                      *)
(***************************************************************************)
\* C17: when the Unsubscribe dialog has handled a payload at its Subreddit
\* step and returned Ok after its statement on the store succeeded (the user
\* was told "Unsubscribed from"), the user has no subscription to the
\* payload and no row in table dialogs, so that the next message is not
\* handed to an Unsubscribe dialog.
C17_UnsubscribeTerminates ==
    \A u \in DialogUsers :
        (/\ handled.user = u
         /\ handled.command = "/unsubscribe"
         /\ handled.step = Unsubscribe_Subreddit
         /\ handled.result = "Ok"
         /\ handled.outbox # <<>>) =>
            /\ \A payload \in Payloads :
                  Sent(handled, Unsubscribed(payload)) =>
                      ~IsSubscribed(subs, u, payload)
            /\ dialogs[u] = None

(***************************************************************************)
(* C18: the Input step of the Feedback dialog.                             *)
(***************************************************************************)
\* u's persisted dialog is a Feedback dialog at Input
FeedbackAtInput(u) ==
    /\ dialogs[u] # None
    /\ dialogs[u][1].command = "/feedback"
    /\ dialogs[u][1].step = T_to_string(FeedbackStepNames, Feedback_Input)

\* s is t or the beginning of t
IsPrefix(s, t) == Len(s) <= Len(t) /\ \A i \in 1..Len(s) : s[i] = t[i]

\* C18: whenever a Feedback dialog is at Input, for every payload and
\* whatever the gateway and the store do, the messages the handler has sent
\* are a beginning of: the payload to the operator, then the confirmation
\* to the user; the row in table dialogs is deleted only after both, and is
\* deleted when nothing failed; when the relay to the operator fails
\* nothing is sent to the user and the row stays.
C18_RelayThenConfirmThenDelete ==
    \A u \in DialogUsers :
        FeedbackAtInput(u) =>
            \A payload \in Payloads, env \in FeedbackEnvs :
                LET d == T_from_DialogEntity(FeedbackStepNames, dialogs[u][1])
                    out == Feedback_handle_current_step(
                              [d EXCEPT !.current_step = @[1]], AuthorId,
                              payload, env, users, dialogs)
                IN  /\ IsPrefix(out.outbox,
                                <<ReceivedInput(u, payload), FeedbackSent>>)
                    /\ IsPrefix(out.chats, <<AuthorId, u>>)
                    /\ Len(out.chats) = Len(out.outbox)
                    /\ out.dialogs # dialogs =>
                          /\ Len(out.outbox) = 2
                          /\ out.dialogs = delete_dialog(dialogs, u)
                    /\ (env.relay_ok /\ env.gateway_ok /\ env.dialog_ok) =>
                          /\ out.result = "Ok"
                          /\ Len(out.outbox) = 2
                          /\ out.dialogs[u] = None
                    /\ ~env.relay_ok =>
                          /\ out.outbox = <<>>
                          /\ out.dialogs = dialogs
                          /\ out.result = "TelegramError"

\* C18 witness: the Input step relayed the user's text, thanked the user
\* and deleted the row
C18_Witness ==
    \E u \in DialogUsers :
        /\ handled.user = u
        /\ handled.command = "/feedback"
        /\ handled.step = Feedback_Input
        /\ handled.result = "Ok"
        /\ handled.outbox = <<ReceivedInput(u, <<"rust">>), FeedbackSent>>
        /\ dialogs[u] = None

(***************************************************************************)
(* C19: /subscribe and /feedback by a user without a row in table users.   *)
(***************************************************************************)
\* C19: in every state, for every user id without a row in table users,
\* /subscribe and /feedback whose write to table dialogs reaches the store
\* (and is refused for the foreign key) leave table dialogs as it is, with
\* no row of that user, and, the gateway taking the message, return Ok
\* after sending the user the request to call /start and nothing else.
C19_NoUserRowAsksForStart ==
    \A u \in UserIds \ users :
        /\ \A env \in Envs(Subscribe_Start, EmptyString) :
              env.dialog_ok =>
                LET out == commands_subscribe(u, env, users, subs, dialogs, now)
                IN  /\ out.dialogs = dialogs
                    /\ out.dialogs[u] = None
                    /\ out.subs = subs
                    /\ env.gateway_ok =>
                          out.result = "Ok" /\ out.outbox = <<NeedStart>>
        /\ \A env \in FeedbackEnvs :
              env.dialog_ok =>
                LET out == commands_feedback(AuthorId, u, env, users, dialogs)
                IN  /\ out.dialogs = dialogs
                    /\ out.dialogs[u] = None
                    /\ env.gateway_ok =>
                          /\ out.result = "Ok"
                          /\ out.outbox = <<NeedStartFeedback>>
                          /\ out.chats = <<u>>

\* C19 witness: a user without a row in table users sent /subscribe, was
\* asked to call /start and has no row in table dialogs
C19_Witness ==
    \E u \in DialogUsers :
        /\ u \notin users
        /\ handled = Handled(u, "/subscribe", Subscribe_Start, "Ok",
                             <<NeedStart>>)
        /\ dialogs[u] = None

(***************************************************************************)
(* C20: store failures at the start of a dialog.                           *)
(***************************************************************************)
\* C20: in every state, for every user with a row in table users (no
\* foreign-key violation can occur), /subscribe and /feedback whose write to
\* table dialogs fails and /unsubscribe whose read of the user's
\* subscriptions fails return the store's error, never Ok; and /unsubscribe
\* does not return Ok either when the write of its dialog row fails.
C20_StoreFailureIsReturned ==
    \A u \in users :
        /\ \A env \in Envs(Subscribe_Start, EmptyString) :
              ~env.dialog_ok =>
                commands_subscribe(u, env, users, subs, dialogs, now).result
                    = "DatabaseError"
        /\ \A env \in FeedbackEnvs :
              ~env.dialog_ok =>
                commands_feedback(AuthorId, u, env, users, dialogs).result
                    = "DatabaseError"
        /\ \A env \in UnsubscribeEnvs :
              (~env.subscribe_ok
                  \/ (~env.dialog_ok /\ env.gateway_ok
                         /\ ~NoSubscriptionOf(subs, u))) =>
                commands_unsubscribe(u, env, users, subs, dialogs).result
                    = "DatabaseError"

DialogEntities ==
    [user_id : UserIds,
     command : {"/subscribe", "/unsubscribe", "/feedback"},
     step : {"Start", "Subreddit", "Weekday", "Time", "Input"},
     data : { {}, {<<"Start", EmptyString>>},
              {<<"Start", EmptyString>>, <<"Subreddit", <<"rust">>>>} }]

\* C22: in every state table dialogs holds at most one row per user, and
\* for every row a dialog can write for a registered user, whatever row the
\* user has, the write leaves that user exactly the written row (command,
\* step and data), which is what the read returns, and leaves the rows of
\* the other users alone.
C22_OneDialogRowReplaced ==
    /\ \A u \in UserIds : Len(dialogs[u]) <= 1
    /\ \A e \in DialogEntities :
          e.user_id \in users =>
            LET r == insert_or_update_dialog(dialogs, users, e)
            IN  /\ r.res = "Ok"
                /\ get_users_dialog(r.dialogs, e.user_id) = Some(e)
                /\ \A v \in UserIds \ {e.user_id} : r.dialogs[v] = dialogs[v]

\* C22 witness: the row the Subreddit step wrote has replaced the row the
\* /subscribe command wrote: the user's one row is at Weekday and holds the
\* names
C22_Witness ==
    \E u \in DialogUsers :
        /\ Len(dialogs[u]) = 1
        /\ get_users_dialog(dialogs, u)[1].command = "/subscribe"
        /\ get_users_dialog(dialogs, u)[1].step = "Weekday"
        /\ get_users_dialog(dialogs, u)[1].data =
              {<<"Start", EmptyString>>, <<"Subreddit", <<"rust">>>>}

(***************************************************************************)
(* C23: a persisted step name that is not a step of the command.           *)
(***************************************************************************)
\* the step name of the row is not one of its command's
MalformedStep(e) == T_from_str(StepNamesOf(e.command), e.step) = None

\* C23: when the user's row has a step name that is not a step of its
\* command, handling the next message ends in the failure value
\* MalformedState and leaves the tables as they are.
C23_MalformedStepIsAFailureValue ==
    [][\A u \in DialogUsers :
        (/\ dialogs[u] # None
         /\ MalformedStep(dialogs[u][1])
         /\ \E payload \in Payloads : handle_message(u, payload)) =>
            /\ handled'.result = "MalformedState"
            /\ dialogs' = dialogs
            /\ subs' = subs
      ]_vars

(***************************************************************************)
(* C24: Dialog -> DialogEntity -> Dialog.                                  *)
(***************************************************************************)
\* the values the data of a dialog holds
DataValues == {EmptyString, <<"r/", "rust", " ", "aww">>, <<"1">>}

\* every Dialog<T> of a user: each step of T, each data mapping keyed by
\* steps of T
DialogsOf(u, command) ==
    LET steps == 0..(Len(StepNamesOf(command)) - 1)
    IN  { [command |-> command, user_id |-> u, current_step |-> step,
           data |-> data] :
            step \in steps,
            data \in UNION {[keys -> DataValues] : keys \in SUBSET steps} }

\* conversion_works: dialog.into() converted back
converted_again(names, d) ==
    LET back == T_from_DialogEntity(names, T_into_DialogEntity(names, d))
    IN  [back EXCEPT !.current_step = back.current_step[1]]

DataKeys(e) == {m[1] : m \in e.data}

\* C25: when a step other than Start of a user's dialog is handled and the
\* user has a row before and after, every step name in the data of the old
\* row is in the data of the new row, and a row that moved to another step
\* holds the name of the handled step.
C25_DataOnlyGrows ==
    [][\A u \in DialogUsers :
        (/\ dialogs[u] # None
         /\ dialogs'[u] # None
         /\ handled'.user = u
         /\ handled'.step # Subscribe_Start) =>
            /\ dialogs'[u][1].command = dialogs[u][1].command
            /\ DataKeys(dialogs[u][1]) \subseteq DataKeys(dialogs'[u][1])
            /\ dialogs'[u][1].step # dialogs[u][1].step =>
                  T_to_string(StepNamesOf(dialogs[u][1].command), handled'.step)
                      \in DataKeys(dialogs'[u][1])
      ]_vars

\* the Weekday step was handled and the row holds the names of the three
\* steps handled so far
C25_Witness ==
    \E u \in DialogUsers :
        /\ handled.user = u
        /\ handled.step = Subscribe_Weekday
        /\ dialogs[u] # None
        /\ DataKeys(dialogs[u][1]) = {"Start", "Subreddit", "Weekday"}

(***************************************************************************)
(* C26: /start for a user who already has a row.                           *)
(***************************************************************************)
\* C26: for a user who already has a row, /start leaves the row of that id,
\* the subscriptions and the dialogs as they are, whatever the store and the
\* gateway do; when the statement was executed and the gateway accepts the
\* message, it sends the help text and returns success.
C26_StartIsIdempotent ==
    \A u \in users, env \in CommandEnvs :
        LET out == commands_start(u, env, users, subs, dialogs)
        IN  /\ out.users = users
            /\ Cardinality({id \in out.users : id = u}) = 1
            /\ out.subs = subs
            /\ out.dialogs = dialogs
            /\ (env.store_ok /\ env.gateway_ok) =>
                  /\ out.result = "Ok"
                  /\ out.outbox = <<HelpText>>

\* /start was answered with the help text for a user who had a subscription
\* and a dialog
C26_Witness ==
    /\ handled.command = "/start"
    /\ handled.result = "Ok"
    /\ handled.outbox = <<HelpText>>
    /\ handled.user \in users
    /\ ~NoSubscriptionOf(subs, handled.user)
    /\ dialogs[handled.user] # None

(***************************************************************************)
(* C27: store failures of /start, /stop and /subscriptions.                *)
(***************************************************************************)
\* C27: when the statement of /start, /stop or /subscriptions fails in the
\* store, the command returns the store error and sends no message; the
\* last handled command of these three that ended in a store error sent
\* nothing.
C27_StoreFailureSendsNothing ==
    /\ \A u \in UserIds, env \in CommandEnvs :
          ~env.store_ok =>
              /\ commands_start(u, env, users, subs, dialogs).result
                    = "DatabaseError"
              /\ commands_start(u, env, users, subs, dialogs).outbox = <<>>
              /\ commands_stop(u, env, users, subs, dialogs).result
                    = "DatabaseError"
              /\ commands_stop(u, env, users, subs, dialogs).outbox = <<>>
              /\ commands_subscriptions(u, env, users, subs, dialogs).result
                    = "DatabaseError"
              /\ commands_subscriptions(u, env, users, subs, dialogs).outbox
                    = <<>>
    /\ (/\ handled.command \in {"/start", "/stop", "/subscriptions"}
        /\ handled.result = "DatabaseError") => handled.outbox = <<>>

\* /subscriptions of a user with a subscription failed in the store and
\* nothing was sent
C27_Witness ==
    /\ handled.command = "/subscriptions"
    /\ handled.result = "DatabaseError"
    /\ handled.outbox = <<>>
    /\ ~NoSubscriptionOf(subs, handled.user)

(***************************************************************************)
(* C28: normalization of the names the user typed.                         *)
(***************************************************************************)
\* the input is made of names, each with an optional r/ marker before it,
\* separated by spaces and newlines, whitespace before and after allowed;
\* seen is what the text read so far ends with
RECURSIVE names_input(_, _)
names_input(s, seen) ==
    IF s = <<>> THEN seen \in {"name", "separator"}
    ELSE IF Head(s) \in Whitespace
         THEN /\ seen # "marker"
              /\ names_input(Tail(s), IF seen = "start" THEN "start"
                                      ELSE "separator")
    ELSE IF Head(s) = "r/"
         THEN seen \in {"start", "separator"} /\ names_input(Tail(s), "marker")
    ELSE seen # "name" /\ names_input(Tail(s), "name")

\* the names typed in the input, without markers
bare_names(s) == {<<s[i]>> : i \in {j \in 1..Len(s) : s[j] \notin Whitespace \cup {"r/"}}}

\* the names a row holds as the payload of the Subreddit step
typed_names(e) == {m[2] : m \in {x \in e.data : x[1] = "Subreddit"}}

AtTimeStep(u) ==
    /\ dialogs[u] # None
    /\ dialogs[u][1].command = "/subscribe"
    /\ dialogs[u][1].step = "Time"

\* the Time step of u's dialog with this payload, every call succeeding
TimeStepOutcome(u, payload) ==
    LET d == from_DialogEntity(dialogs[u][1])
    IN  handle_current_step([d EXCEPT !.current_step = Subscribe_Time],
                            payload, AllOk, users, subs, dialogs, now)

\* C29: at the Time step, when the stored Weekday payload or the Time payload
\* is not an integer, the dialog completes: the result is success, the row
\* of the dialog is deleted, and each topic the user was not subscribed to
\* has a subscription with weekday 0 in place of a Weekday payload that is
\* not an integer and hour 12 in place of a Time payload that is not one.
C29_ParseFailuresFallBack ==
    \A u \in DialogUsers, payload \in PayloadsAt("/subscribe", "Time") :
        AtTimeStep(u) =>
            LET d == from_DialogEntity(dialogs[u][1])
                day == parse_i32(d.data[Subscribe_Weekday])
                time == parse_i32(payload)
                topics == time_step_subreddits(d.data[Subscribe_Subreddit])
                out == TimeStepOutcome(u, payload)
            IN  (day = None \/ time = None) =>
                    /\ out.result = "Ok"
                    /\ out.dialogs[u] = None
                    /\ \A i \in 1..Len(topics) :
                          ~IsSubscribed(subs, u, topics[i]) =>
                              \E j \in 1..Len(out.subs) :
                                  /\ out.subs[j].user_id = u
                                  /\ out.subs[j].subreddit = topics[i]
                                  /\ out.subs[j].send_on = unwrap_or(day, 0)
                                  /\ out.subs[j].send_at = unwrap_or(time, 12)

(***************************************************************************)
(* C30: the weekday and hour of stored subscriptions.                      *)
(***************************************************************************)
\* C30: every row of users_subscriptions has a weekday in 0..6 and an hour
\* in 0..23, whatever payloads the users sent to their Subscribe dialogs.
C30_StoredWeekdayAndHourInRange ==
    \A i \in 1..Len(subs) :
        /\ subs[i].send_on \in 0..(DaysPerWeek - 1)
        /\ subs[i].send_at \in 0..(HoursPerDay - 1)

(***************************************************************************)
(* C31: last_sent_at of a subscription no digest was sent for.             *)
(***************************************************************************)
\* C31: in the request path without /sendnow, where no delivery pipeline
\* runs and so no digest is sent, every subscription has last_sent_at
\* absent, in particular the ones the Subscribe dialog has just created.
C31_NoDigestNoLastSent ==
    \A i \in 1..Len(subs) : subs[i].last_sent_at = None

(***************************************************************************)
(* C32: failures of the Content Source.                                    *)
(***************************************************************************)
\* C32: whatever the Content Source answers, fetch_posts gives the pipeline
\* posts or an error value: no scheduler run ends with the fetch unwinding
\* the thread.
C32_FetchFailuresAreErrorValues ==
    /\ run.fetch \in {"none", "ok", "err"}
    /\ run.fetch = "err" => run.result = "Err"

(***************************************************************************)
(* C33: the preview delivery of the Subscribe dialog's terminal step.      *)
(***************************************************************************)
\* C33: when the Time step of a Subscribe dialog completes with every call
\* succeeding, the user has been sent, for each subscription the step
\* created, the digest of its topic (the delivery pipeline ran for it), and
\* the row of the dialog is deleted.
C33_TerminalStepDeliversPreview ==
    \A u \in DialogUsers, payload \in PayloadsAt("/subscribe", "Time") :
        (AtTimeStep(u) /\ TimeStepOutcome(u, payload).result = "Ok") =>
            LET out == TimeStepOutcome(u, payload)
            IN  /\ out.dialogs[u] = None
                /\ \A j \in 1..Len(out.subs) :
                      (out.subs[j].user_id = u
                          /\ ~IsSubscribed(subs, u, out.subs[j].subreddit)) =>
                          \E i \in 1..Len(out.outbox) :
                              /\ Len(out.outbox[i]) >= 3
                              /\ SubSeq(out.outbox[i], 1, 3)
                                    = Header(out.subs[j].subreddit)

(***************************************************************************)
(* C34: updates whose handling fails.                                      *)
(***************************************************************************)
\* C34: when the handling of a user's update ended in a store failure or in
\* the failure of reading the persisted state, the user was sent a message
\* while the update was handled.
C34_FailureIsReportedToTheUser ==
    handled.result \in {"DatabaseError", "Panic"} => handled.outbox # <<>>

(***************************************************************************)
(* C35: /sendnow.                                                          *)
(***************************************************************************)
\* C35: when the read of the user's subscriptions succeeds, /sendnow of a
\* user without subscriptions sends the 'not subscribed' text, no digest,
\* and changes no row; of a user with subscriptions it returns success,
\* sends no text of its own, and the gateway gets one more digest for each
\* of the user's subscriptions whose fetch succeeded and whose send it
\* accepted, whatever happened to the user's other subscriptions, and none
\* for any other subscription.
C35_SendNowProcessesEachOnce ==
    \A u \in UserIds, gateway_ok \in BOOLEAN :
        LET list == get_user_subscriptions(subs, u)
        IN  \A choice \in [1..Len(list) -> PipelineCases] :
              LET w == commands_send_now(u, TRUE, gateway_ok, choice, subs,
                                         digests, now)
                  delivered == {list[i].id : i \in
                                  {j \in 1..Len(list) :
                                      /\ fetch_posts(choice[j].resp).tag = "Ok"
                                      /\ Accepted(choice[j].send)}}
              IN  w.feasible =>
                    IF Len(list) = 0
                    THEN /\ gateway_ok => (w.result = "Ok"
                                              /\ w.outbox = <<NothingYet>>)
                         /\ w.digests = digests
                         /\ w.subs = subs
                    ELSE /\ w.result = "Ok"
                         /\ w.outbox = <<>>
                         /\ \A id \in SubIds :
                               w.digests[id] = IF id \in delivered
                                               THEN digests[id] + 1
                                               ELSE digests[id]

C37_CommandReplacesDialog ==
    /\ \A u \in UserIds :
          /\ Dialog_Subscribe_new(u).current_step = Subscribe_Start
          /\ DOMAIN Dialog_Subscribe_new(u).data = {}
          /\ Dialog_Feedback_new(u).current_step = Feedback_Start
          /\ DOMAIN Dialog_Feedback_new(u).data = {}
    /\ \A u \in DialogUsers :
          dialogs[u] # None =>
              /\ \A env \in Envs(Subscribe_Start, EmptyString) :
                    env.dialog_ok =>
                        commands_subscribe(u, env, users, subs, dialogs, now)
                                .dialogs[u]
                          = <<[user_id |-> u, command |-> "/subscribe",
                               step |-> "Subreddit",
                               data |-> {<<"Start", EmptyString>>}]>>
              /\ \A env \in FeedbackEnvs :
                    env.dialog_ok =>
                        commands_feedback(AuthorId, u, env, users, dialogs)
                                .dialogs[u]
                          = <<[user_id |-> u, command |-> "/feedback",
                               step |-> "Input",
                               data |-> {<<"Start", EmptyString>>}]>>

\* a user's Subscribe dialog is at the Time step with the payloads of three
\* steps, and /feedback invoked now leaves a row with the data of its own
\* Start step only
C37_Witness ==
    \E u \in DialogUsers :
        /\ dialogs[u] # None
        /\ dialogs[u][1].command = "/subscribe"
        /\ dialogs[u][1].step = "Time"
        /\ Cardinality(dialogs[u][1].data) = 3
        /\ \E env \in FeedbackEnvs :
              /\ env.dialog_ok
              /\ commands_feedback(AuthorId, u, env, users, dialogs)
                      .dialogs[u][1].data = {<<"Start", EmptyString>>}

(***************************************************************************)
(* C38: errors inside a scheduler iteration.                               *)
(***************************************************************************)
\* C38: a failed listing of the subscriptions takes the scheduler to its
\* sleep; a pipeline run that returns an error takes it to the next
\* subscription of the list or, after the last one, to its sleep; and a
\* scheduler that sleeps begins another iteration.
C38_ErrorsDoNotEndTheLoop ==
    /\ [][ /\ (SchedLoad /\ snapshot' = <<>>) => schedPc' = "sleep"
           /\ ((SchedFetch \/ SchedSend \/ SchedUpdate)
                  /\ run'.result = "Err") =>
                 /\ idx' = idx + 1
                 /\ schedPc' = IF idx < Len(snapshot) THEN "check" ELSE "sleep"
         ]_vars
    /\ (schedPc = "sleep") ~> (schedPc = "load")

\* an iteration whose last pipeline run failed at the Content Source has
\* reached its sleep
C38_Witness ==
    /\ schedPc = "sleep"
    /\ run.result = "Err"
    /\ run.fetch = "err"

(***************************************************************************)
(* C39: the due check on rows the Subscribe dialog can create.             *)
(***************************************************************************)
\* C39: a scheduler iteration examines every listed subscription without
\* panicking in the due check: the scheduler is never stopped by the
\* conversion of a stored weekday, and whenever it sleeps after a listing it
\* has gone through the whole list.
C39_DueCheckExaminesEveryRow ==
    /\ ~(schedPc = "panicked" /\ run.result = "check_panic")
    /\ (schedPc = "sleep" /\ snapshot # <<>>) => idx = Len(snapshot) + 1

(***************************************************************************)
(* C40: the scheduler interleaved with the removal of subscriptions.       *)
(***************************************************************************)
\* C40: the scheduler sends a digest only for a subscription whose row is
\* in the store at the moment of the send, and its last-sent update for a
\* row that is no longer in the store leaves the row absent and lets the
\* loop go on.
C40_NoDigestAfterRemoval ==
    [][ /\ (SchedSend /\ schedDigests' # schedDigests) =>
              HasRow(subs, snapshot[idx].id)
        /\ (SchedUpdate /\ ~HasRow(subs, snapshot[idx].id)) =>
              /\ ~HasRow(subs', snapshot[idx].id)
              /\ schedPc' \in {"check", "sleep"}
      ]_vars
====
